---- MODULE Spec2Model ----
(***************************************************************************)
(* secret-init: the provider dispatcher (EnvStore.LoadProviderSecrets) and *)
(* the daemon-mode supervisor (main, the signal forwarder and the Vault    *)
(* lease renewer), modelled as state machines.                             *)
(*                                                                         *)
(* Eight specifications share the module:                                  *)
(*   Spec        - one call of LoadProviderSecrets over a provider mapping;*)
(*                 env_store.go carries the function twice, without and    *)
(*                 with the serial Vault step, and Spec runs either;       *)
(*   SupSpec     - main() from the spawn of the child to os.Exit, with the *)
(*                 forwarder goroutine and one renewer goroutine;          *)
(*   SupFairSpec - SupSpec with weak fairness on the steps the Go          *)
(*                 scheduler, the kernel and the timers always take;       *)
(*   EnvSpec     - the build of the child's environment from os.Environ()  *)
(*                 and the resolved secrets;                               *)
(*   PipeSpec    - the whole start-up: the snapshot of the environment,    *)
(*                 GetSecretReferences, the providers' LoadConfig and      *)
(*                 LoadSecrets, and the spawn of the child;                *)
(*   LoadSpec    - one call of a provider's LoadSecrets on an input list;  *)
(*   ArgsSpec    - ExtractEntrypoint on a command line;                    *)
(*   ModeSpec    - the hand-over of the environment to the child by the    *)
(*                 older main, which spawns in daemon mode and execs       *)
(*                 otherwise.                                              *)
(***************************************************************************)
EXTENDS Integers, Sequences, FiniteSets, TLC

VARIABLES
    \* ---- dispatcher (env_store.go) ----
    vaultFirst,       \* the function has the serial Vault step (292-303)
    given,            \* the mapping as it was handed to LoadProviderSecrets
    providerPaths,    \* the mapping, from which the Vault step deletes
    launched,         \* providers for which main has run wg.Add(1); go func
    pc,               \* position of each worker goroutine
    outcome,          \* what each worker's Create / LoadSecrets did
    errCh,            \* buffered error channel
    errChClosed,      \* close(errCh) has run
    wg,               \* sync.WaitGroup counter
    mu,               \* sync.Mutex holder ("" = unlocked)
    tmp,              \* the slice header a worker read inside append
    providerSecrets,  \* the shared sink
    mainPc,           \* position of LoadProviderSecrets itself
    ret,              \* its return value
    cancelled,        \* ctx.Done() is closed
    \* ---- supervisor (main), forwarder, renewer ----
    daemon,           \* config.Daemon
    supPc,            \* position of main()
    exitCode,         \* status the supervisor process ended with
    sigs,             \* main's signal channel (capacity 1)
    sigsClosed,       \* close(sigs) has run
    waitErr,          \* what cmd.Wait() returned
    procState,        \* cmd.ProcessState
    child,            \* the child process
    childSignals,     \* signals that reached the child through cmd.Process.Signal
    fwdPc,            \* position of the forwarder goroutine
    fwdSig,           \* the signal the forwarder holds
    nSignals,         \* signals the OS has delivered to the supervisor
    dropped,          \* signals signal.Notify's sender discarded on a full buffer
    rnPc,             \* position of the renewer goroutine
    provSigs,         \* the channel made in vault.NewProvider (capacity 1)
    renewable,        \* secret.Renewable
    lease,            \* secret.LeaseDuration, seconds
    renewals,         \* renewals logged so far
    now,              \* seconds elapsed on the renewer's timers
    deadline,         \* when the running timer fires
    doneAt,           \* time of the watcher's done event
    termAt,           \* time the renewer's SIGTERM send completed
    killAt,           \* time the renewer's SIGKILL send completed
    \* ---- child environment ----
    osEnviron,        \* os.Environ()
    loaded,           \* the []provider.Secret handed to ConvertProviderSecrets
    secretsEnv,       \* its result
    cmdEnv,           \* cmd.Env
    childEnv,         \* the environment the child process starts with
    envPc,            \* position in main() between convert and spawn
    data,             \* EnvStore.data: the snapshot of the environment
    secretReferences, \* the mapping GetSecretReferences returns
    sanitizeEnvmap,   \* the sanitize maps of the vault and bao packages
    config,           \* what LoadConfig returned to each NewProvider
    provided,         \* what each provider's NewProvider / LoadSecrets did
    results,          \* the secrets each loader returned
    revoke,           \* what each provider's revoke-self call did
    osArgs,           \* os.Args
    entrypoint        \* what ExtractEntrypoint(os.Args) returned

dvars == <<vaultFirst, given, providerPaths, launched, pc, outcome, errCh, errChClosed, wg, mu,
           tmp, providerSecrets, mainPc, ret, cancelled>>

svars == <<daemon, supPc, exitCode, sigs, sigsClosed, waitErr, procState,
           child, childSignals, fwdPc, fwdSig, nSignals, dropped, rnPc,
           provSigs, renewable, lease, renewals, now, deadline, doneAt,
           termAt, killAt>>

evars == <<osEnviron, loaded, secretsEnv, cmdEnv, childEnv, envPc, data,
           secretReferences, sanitizeEnvmap, config, provided, results,
           revoke, osArgs, entrypoint>>

vars == <<dvars, svars, evars>>

----------------------------------------------------------------------------
(* Bounds                                                                  *)

MaxProviders == 2
MaxRefs == 2

----------------------------------------------------------------------------
(* The loader registry                                                     *)

factories == <<"file", "vault", "bao", "aws", "gcp", "azure">>

ProviderTypes == {factories[i] : i \in 1..Len(factories)}

\* a provider id that no factory carries (LoadProviderSecrets takes any map)
Ids == ProviderTypes \cup {"invalid"}

EnvNames == <<"A", "B", "C">>

\* the first n environment names, as the "name=reference" list of a group
Refs(n) == SubSeq(EnvNames, 1, n)

ErrChCap == Len(factories)

NoRet == [done |-> FALSE, secrets |-> <<>>, err |-> <<>>]

NoProcess == [kind |-> "none", code |-> 0, sig |-> ""]

NoSignal == [sig |-> "", from |-> ""]

----------------------------------------------------------------------------
(* Loader contract: one Secret per reference, in input order               *)

RECURSIVE LoadSecrets(_, _)
LoadSecrets(p, refs) ==
    IF refs = <<>> THEN <<>>
    ELSE <<[Key |-> Head(refs), Value |-> <<p, Head(refs)>>]>>
         \o LoadSecrets(p, Tail(refs))

----------------------------------------------------------------------------
(* Init: a mapping of at most MaxProviders groups                          *)

\* the supervisor and the environment builder before they run
SupervisorIdle ==
    /\ supPc = "idle"
    /\ exitCode = 0
    /\ sigs = <<>>
    /\ sigsClosed = FALSE
    /\ waitErr = "none"
    /\ procState = NoProcess
    /\ child = NoProcess
    /\ childSignals = <<>>
    /\ fwdPc = "none"
    /\ fwdSig = NoSignal
    /\ nSignals = 0
    /\ dropped = <<>>
    /\ rnPc = "none"
    /\ provSigs = <<>>
    /\ renewable = FALSE
    /\ lease = 0
    /\ renewals = 0
    /\ now = 0
    /\ deadline = 0
    /\ doneAt = -1
    /\ termAt = -1
    /\ killAt = -1

SupIdle == daemon = FALSE /\ SupervisorIdle

\* the start-up before the snapshot of the environment is taken
PipeIdle ==
    /\ data = <<>>
    /\ secretReferences = <<>>
    /\ sanitizeEnvmap = <<>>
    /\ config = <<>>
    /\ provided = <<>>
    /\ results = <<>>
    /\ revoke = <<>>
    /\ osArgs = <<>>
    /\ entrypoint = <<>>

EnvIdle ==
    /\ osEnviron = <<>>
    /\ loaded = <<>>
    /\ secretsEnv = <<>>
    /\ cmdEnv = <<>>
    /\ childEnv = <<>>
    /\ envPc = "idle"
    /\ PipeIdle

WorkersIdle ==
    /\ given = <<>>
    /\ providerPaths = <<>>
    /\ launched = {}
    /\ pc = [p \in Ids |-> "new"]
    /\ outcome = [p \in Ids |-> "none"]
    /\ errCh = <<>>
    /\ errChClosed = FALSE
    /\ wg = 0
    /\ mu = ""
    /\ tmp = [p \in Ids |-> <<>>]
    /\ providerSecrets = <<>>
    /\ mainPc = "idle"
    /\ ret = NoRet
    /\ cancelled = FALSE

DispatchIdle ==
    /\ vaultFirst = FALSE
    /\ WorkersIdle

Init ==
    /\ vaultFirst \in BOOLEAN
    /\ \E S \in SUBSET Ids :
         /\ Cardinality(S) <= MaxProviders
         /\ providerPaths \in [S -> {Refs(n) : n \in 0..MaxRefs}]
    /\ given = providerPaths
    /\ launched = {}
    /\ pc = [p \in Ids |-> "new"]
    /\ outcome = [p \in Ids |-> "none"]
    /\ errCh = <<>>
    /\ errChClosed = FALSE
    /\ wg = 0
    /\ mu = ""
    /\ tmp = [p \in Ids |-> <<>>]
    /\ providerSecrets = <<>>
    /\ mainPc = IF vaultFirst THEN "workaround" ELSE "range"
    /\ ret = NoRet
    /\ cancelled = FALSE
    /\ SupIdle
    /\ EnvIdle

----------------------------------------------------------------------------
(* LoadProviderSecrets, main goroutine                                     *)

\* if _, ok := providerPaths["vault"]; ok { s.workaroundForBao(...) }
Workaround ==
    /\ mainPc = "workaround"
    /\ mainPc' = IF "vault" \in DOMAIN providerPaths THEN "wcreate"
                 ELSE "range"
    /\ UNCHANGED <<providerPaths, launched, pc, outcome, errCh, errChClosed,
                   wg, mu, tmp, providerSecrets, ret, cancelled>>
    /\ UNCHANGED <<vaultFirst, given, svars, evars>>

\* workaroundForBao: provider, err := factory.Create(ctx, s.appConfig);
\* on error LoadProviderSecrets returns nil, err at once
WorkaroundCreate ==
    /\ mainPc = "wcreate"
    /\ \E ok \in BOOLEAN :
         IF ok
         THEN /\ outcome' = [outcome EXCEPT !["vault"] = "created"]
              /\ mainPc' = "wload"
              /\ UNCHANGED ret
         ELSE /\ outcome' = [outcome EXCEPT !["vault"] = "createFailed"]
              /\ ret' = [done |-> TRUE, secrets |-> <<>>,
                         err |-> <<[provider |-> "vault",
                                    stage |-> "createFailed"]>>]
              /\ mainPc' = "returned"
    /\ UNCHANGED <<providerPaths, launched, pc, errCh, errChClosed, wg, mu,
                   tmp, providerSecrets, cancelled>>
    /\ UNCHANGED <<vaultFirst, given, svars, evars>>

\* workaroundForBao: secrets, err := provider.LoadSecrets(ctx, vaultPaths);
\* then providerSecrets = append(providerSecrets, vaultSecrets...) and
\* delete(providerPaths, "vault")
WorkaroundLoad ==
    /\ mainPc = "wload"
    /\ \E ok \in BOOLEAN :
         IF ok /\ ~cancelled
         THEN /\ outcome' = [outcome EXCEPT !["vault"] = "loaded"]
              /\ providerSecrets' =
                     providerSecrets \o LoadSecrets("vault",
                                                    providerPaths["vault"])
              /\ providerPaths' =
                     [p \in (DOMAIN providerPaths) \ {"vault"} |->
                         providerPaths[p]]
              /\ mainPc' = "range"
              /\ UNCHANGED ret
         ELSE /\ outcome' = [outcome EXCEPT !["vault"] = "loadFailed"]
              /\ ret' = [done |-> TRUE, secrets |-> <<>>,
                         err |-> <<[provider |-> "vault",
                                    stage |-> "loadFailed"]>>]
              /\ mainPc' = "returned"
              /\ UNCHANGED <<providerPaths, providerSecrets>>
    /\ UNCHANGED <<launched, pc, errCh, errChClosed, wg, mu, tmp, cancelled>>
    /\ UNCHANGED <<vaultFirst, given, svars, evars>>

\* for providerName, paths := range providerPaths { wg.Add(1); go func(...) }
Launch(p) ==
    /\ mainPc = "range"
    /\ p \in DOMAIN providerPaths
    /\ p \notin launched
    /\ launched' = launched \cup {p}
    /\ wg' = wg + 1
    /\ pc' = [pc EXCEPT ![p] = "lookup"]
    /\ UNCHANGED <<providerPaths, outcome, errCh, errChClosed, mu, tmp,
                   providerSecrets, mainPc, ret, cancelled>>
    /\ UNCHANGED <<vaultFirst, given, svars, evars>>

\* the range loop is over
RangeDone ==
    /\ mainPc = "range"
    /\ launched = DOMAIN providerPaths
    /\ mainPc' = "wait"
    /\ UNCHANGED <<providerPaths, launched, pc, outcome, errCh, errChClosed,
                   wg, mu, tmp, providerSecrets, ret, cancelled>>
    /\ UNCHANGED <<vaultFirst, given, svars, evars>>

\* a slip: close(errCh) without wg.Wait()
WaitAndClose_NoWait ==
    /\ mainPc = "wait"
    /\ errChClosed' = TRUE
    /\ mainPc' = "drain"
    /\ UNCHANGED <<providerPaths, launched, pc, outcome, errCh, wg, mu, tmp,
                   providerSecrets, ret, cancelled>>
    /\ UNCHANGED <<vaultFirst, given, svars, evars>>

\* wg.Wait(); close(errCh)
WaitAndClose ==
    /\ mainPc = "wait"
    /\ wg = 0
    /\ errChClosed' = TRUE
    /\ mainPc' = "drain"
    /\ UNCHANGED <<providerPaths, launched, pc, outcome, errCh, wg, mu, tmp,
                   providerSecrets, ret, cancelled>>
    /\ UNCHANGED <<vaultFirst, given, svars, evars>>

\* a slip: the sink is returned together with the error
ReturnValue_Partial(errs, secrets) ==
    [done |-> TRUE, secrets |-> secrets, err |-> errs]

\* a slip: only the first error read from the channel is returned
ReturnValue_FirstError(errs, secrets) ==
    IF errs # <<>>
    THEN [done |-> TRUE, secrets |-> <<>>, err |-> <<Head(errs)>>]
    ELSE [done |-> TRUE, secrets |-> secrets, err |-> <<>>]

\* if errs != nil { return nil, errs }; return providerSecrets, nil
ReturnValue(errs, secrets) ==
    IF errs # <<>>
    THEN [done |-> TRUE, secrets |-> <<>>, err |-> errs]
    ELSE [done |-> TRUE, secrets |-> secrets, err |-> <<>>]

\* for e := range errCh { errs = errors.Join(errs, e) }; return
DrainAndReturn ==
    /\ mainPc = "drain"
    /\ ret' = ReturnValue(errCh, providerSecrets)
    /\ errCh' = <<>>
    /\ mainPc' = "returned"
    /\ UNCHANGED <<providerPaths, launched, pc, outcome, errChClosed, wg, mu,
                   tmp, providerSecrets, cancelled>>
    /\ UNCHANGED <<vaultFirst, given, svars, evars>>

----------------------------------------------------------------------------
(* Worker goroutine of provider p                                          *)

\* for _, factory := range factories { if factory.ProviderType == providerName
Lookup(p) ==
    /\ pc[p] = "lookup"
    /\ IF p \in ProviderTypes
       THEN /\ pc' = [pc EXCEPT ![p] = "create"]
            /\ UNCHANGED <<wg, outcome>>
       ELSE \* no factory matches: the loop ends, the deferred wg.Done() runs
            /\ pc' = [pc EXCEPT ![p] = "done"]
            /\ outcome' = [outcome EXCEPT ![p] = "nofactory"]
            /\ wg' = wg - 1
    /\ UNCHANGED <<providerPaths, launched, errCh, errChClosed, mu, tmp,
                   providerSecrets, mainPc, ret, cancelled>>
    /\ UNCHANGED <<vaultFirst, given, svars, evars>>

\* a slip: the worker publishes the factory's error and goes on to the load
\* instead of returning
Create_NoReturn(p) ==
    /\ pc[p] = "create"
    /\ \E ok \in BOOLEAN :
         IF ok
         THEN /\ outcome' = [outcome EXCEPT ![p] = "created"]
              /\ UNCHANGED errCh
         ELSE /\ outcome' = [outcome EXCEPT ![p] = "createFailed"]
              /\ errCh' = Append(errCh, [provider |-> p,
                                         stage |-> "createFailed"])
    /\ pc' = [pc EXCEPT ![p] = "load"]
    /\ UNCHANGED <<providerPaths, launched, errChClosed, wg, mu, tmp,
                   providerSecrets, mainPc, ret, cancelled>>
    /\ UNCHANGED <<vaultFirst, given, svars, evars>>

\* provider, err := factory.Create(ctx, s.appConfig)
Create(p) ==
    /\ pc[p] = "create"
    /\ \E ok \in BOOLEAN :
         IF ok
         THEN /\ pc' = [pc EXCEPT ![p] = "load"]
              /\ outcome' = [outcome EXCEPT ![p] = "created"]
         ELSE /\ pc' = [pc EXCEPT ![p] = "senderr"]
              /\ outcome' = [outcome EXCEPT ![p] = "createFailed"]
    /\ UNCHANGED <<providerPaths, launched, errCh, errChClosed, wg, mu, tmp,
                   providerSecrets, mainPc, ret, cancelled>>
    /\ UNCHANGED <<vaultFirst, given, svars, evars>>

\* secrets, err := provider.LoadSecrets(ctx, paths)
\* a loader that observes the cancelled context returns its error
Load(p) ==
    /\ pc[p] = "load"
    /\ \E ok \in BOOLEAN :
         IF ok /\ ~cancelled
         THEN /\ pc' = [pc EXCEPT ![p] = "lock"]
              /\ outcome' = [outcome EXCEPT ![p] = "loaded"]
         ELSE /\ pc' = [pc EXCEPT ![p] = "senderr"]
              /\ outcome' = [outcome EXCEPT ![p] = "loadFailed"]
    /\ UNCHANGED <<providerPaths, launched, errCh, errChClosed, wg, mu, tmp,
                   providerSecrets, mainPc, ret, cancelled>>
    /\ UNCHANGED <<vaultFirst, given, svars, evars>>

\* errCh <- fmt.Errorf("failed to ... provider %s: %w", providerName, err);
\* return (deferred wg.Done()).  The send blocks while the buffer is full.
SendErr(p) ==
    /\ pc[p] = "senderr"
    /\ Len(errCh) < ErrChCap
    /\ errCh' = Append(errCh, [provider |-> p, stage |-> outcome[p]])
    /\ pc' = [pc EXCEPT ![p] = "done"]
    /\ wg' = wg - 1
    /\ UNCHANGED <<providerPaths, launched, outcome, errChClosed, mu, tmp,
                   providerSecrets, mainPc, ret, cancelled>>
    /\ UNCHANGED <<vaultFirst, given, svars, evars>>

\* a slip: the sink is appended to without waiting for the mutex
Lock_NoMutex(p) ==
    /\ pc[p] = "lock"
    /\ mu' = p
    /\ pc' = [pc EXCEPT ![p] = "read"]
    /\ UNCHANGED <<providerPaths, launched, outcome, errCh, errChClosed, wg,
                   tmp, providerSecrets, mainPc, ret, cancelled>>
    /\ UNCHANGED <<vaultFirst, given, svars, evars>>

\* mu.Lock()
Lock(p) ==
    /\ pc[p] = "lock"
    /\ mu = ""
    /\ mu' = p
    /\ pc' = [pc EXCEPT ![p] = "read"]
    /\ UNCHANGED <<providerPaths, launched, outcome, errCh, errChClosed, wg,
                   tmp, providerSecrets, mainPc, ret, cancelled>>
    /\ UNCHANGED <<vaultFirst, given, svars, evars>>

\* append(providerSecrets, secrets...): the read of the slice
ReadSink(p) ==
    /\ pc[p] = "read"
    /\ tmp' = [tmp EXCEPT ![p] = providerSecrets]
    /\ pc' = [pc EXCEPT ![p] = "write"]
    /\ UNCHANGED <<providerPaths, launched, outcome, errCh, errChClosed, wg,
                   mu, providerSecrets, mainPc, ret, cancelled>>
    /\ UNCHANGED <<vaultFirst, given, svars, evars>>

\* a slip: the worker appends its loader's result in reverse order
WriteSink_Reversed(p) ==
    /\ pc[p] = "write"
    /\ LET secrets == LoadSecrets(p, providerPaths[p])
       IN providerSecrets' =
              tmp[p] \o [i \in DOMAIN secrets |->
                            secrets[Len(secrets) + 1 - i]]
    /\ tmp' = [tmp EXCEPT ![p] = <<>>]
    /\ mu' = ""
    /\ pc' = [pc EXCEPT ![p] = "done"]
    /\ wg' = wg - 1
    /\ UNCHANGED <<providerPaths, launched, outcome, errCh, errChClosed,
                   mainPc, ret, cancelled>>
    /\ UNCHANGED <<vaultFirst, given, svars, evars>>

\* providerSecrets = append(...); mu.Unlock(); the factory loop finds no
\* further match; deferred wg.Done()
WriteSink(p) ==
    /\ pc[p] = "write"
    /\ providerSecrets' = tmp[p] \o LoadSecrets(p, providerPaths[p])
    /\ tmp' = [tmp EXCEPT ![p] = <<>>]
    /\ mu' = ""
    /\ pc' = [pc EXCEPT ![p] = "done"]
    /\ wg' = wg - 1
    /\ UNCHANGED <<providerPaths, launched, outcome, errCh, errChClosed,
                   mainPc, ret, cancelled>>
    /\ UNCHANGED <<vaultFirst, given, svars, evars>>

\* the caller cancels the context while the dispatch is running
Cancel ==
    /\ mainPc \in {"workaround", "wcreate", "wload", "range", "wait"}
    /\ ~cancelled
    /\ cancelled' = TRUE
    /\ UNCHANGED <<providerPaths, launched, pc, outcome, errCh, errChClosed,
                   wg, mu, tmp, providerSecrets, mainPc, ret>>
    /\ UNCHANGED <<vaultFirst, given, svars, evars>>

Next ==
    \/ Workaround
    \/ WorkaroundCreate
    \/ WorkaroundLoad
    \/ \E p \in Ids : Launch(p)
    \/ RangeDone
    \/ WaitAndClose
    \/ DrainAndReturn
    \/ \E p \in Ids : Lookup(p)
    \/ \E p \in Ids : Create(p)
    \/ \E p \in Ids : Load(p)
    \/ \E p \in Ids : SendErr(p)
    \/ \E p \in Ids : Lock(p)
    \/ \E p \in Ids : ReadSink(p)
    \/ \E p \in Ids : WriteSink(p)
    \/ Cancel

Spec == Init /\ [][Next]_vars

----------------------------------------------------------------------------
(* The supervisor: main() from cmd.Start to os.Exit, the forwarder         *)
(* goroutine, the renewer goroutine and the child process                  *)

MaxSignals == 2
MaxLease == 1
MaxRenewals == 1

\* the grace period between the renewer's SIGTERM and SIGKILL, seconds
GraceSeconds == 10

SigsCap == 1

\* signals the operating system delivers to the supervisor process
ExtSignals == {"SIGINT", "SIGTERM"}

\* exit statuses of a child that terminates by itself
ChildCodes == {0, 3}

SigNum(s) ==
    CASE s = "SIGINT" -> 2
      [] s = "SIGKILL" -> 9
      [] s = "SIGTERM" -> 15

Range(q) == {q[i] : i \in DOMAIN q}

SupAlive == supPc \notin {"idle", "exited", "panicked"}

\* a slip: the provider installs the renewer whatever the mode
SecretRenewer_Always(daemonMode) == {"none", "watching"}

\* if appConfig.Daemon { ...; secretRenewer = daemonSecretRenewer{...} }:
\* the positions the renewer can start in; with a renewer installed, the
\* injector starts a watcher for a secret that carries a lease
SecretRenewer(daemonMode) ==
    IF daemonMode THEN {"none", "watching"} ELSE {"none"}

SupInit ==
    /\ DispatchIdle
    /\ EnvIdle
    /\ daemon \in BOOLEAN
    /\ supPc = "start"
    /\ exitCode = 0
    /\ sigs = <<>>
    /\ sigsClosed = FALSE
    /\ waitErr = "none"
    /\ procState = NoProcess
    /\ child = NoProcess
    /\ childSignals = <<>>
    /\ fwdPc = "none"
    /\ fwdSig = NoSignal
    /\ nSignals = 0
    /\ dropped = <<>>
    \* vault.NewProvider installs a renewer only when appConfig.Daemon is set
    /\ rnPc \in SecretRenewer(daemon)
    /\ provSigs = <<>>
    /\ renewable \in (IF rnPc = "watching" THEN BOOLEAN ELSE {FALSE})
    /\ lease \in (IF rnPc = "watching" /\ ~renewable THEN 0..MaxLease ELSE {0})
    /\ renewals = 0
    /\ now = 0
    /\ deadline = 0
    /\ doneAt = -1
    /\ termAt = -1
    /\ killAt = -1

\* ProcessState.Exited()
Exited(ps) == ps.kind = "exited"

\* ProcessState.ExitCode(): -1 unless the process exited by itself
ExitCode(ps) == IF ps.kind = "exited" THEN ps.code ELSE -1

\* cmd.Wait(): nil for status 0, *exec.ExitError for any other status
WaitResult(ps) == IF ps.kind = "exited" /\ ps.code = 0 THEN "nil" ELSE "exitError"

\* if err != nil { if errors.As(err, &exitErr) { os.Exit(exitErr.ExitCode()) }
\*                 os.Exit(-1) }
\* os.Exit(cmd.ProcessState.ExitCode())
SupervisorExitCode(err, ps) ==
    IF err = "nil" THEN ExitCode(ps)
    ELSE IF err = "exitError" THEN ExitCode(ps)
    ELSE -1

\* err = cmd.Start()
CmdStart ==
    /\ supPc = "start"
    /\ \E ok \in BOOLEAN :
         IF ok
         THEN /\ child' = [kind |-> "running", code |-> 0, sig |-> ""]
              /\ supPc' = IF daemon THEN "gofwd" ELSE "wait"
              /\ UNCHANGED exitCode
         ELSE /\ exitCode' = 1
              /\ supPc' = "exited"
              /\ UNCHANGED child
    /\ UNCHANGED <<daemon, sigs, sigsClosed, waitErr, procState, childSignals,
                   fwdPc, fwdSig, nSignals, dropped, rnPc, provSigs, renewable,
                   lease, renewals, now, deadline, doneAt, termAt, killAt>>
    /\ UNCHANGED <<dvars, evars>>

\* if config.Daemon { go func() { for sig := range sigs { ... } }() }
GoForwarder ==
    /\ supPc = "gofwd"
    /\ fwdPc' = "recv"
    /\ supPc' = "wait"
    /\ UNCHANGED <<daemon, exitCode, sigs, sigsClosed, waitErr, procState,
                   child, childSignals, fwdSig, nSignals, dropped, rnPc,
                   provSigs, renewable, lease, renewals, now, deadline, doneAt,
                   termAt, killAt>>
    /\ UNCHANGED <<dvars, evars>>

\* err = cmd.Wait(): returns once the child has terminated, fills
\* cmd.ProcessState; the wait itself can fail
CmdWait ==
    /\ supPc = "wait"
    /\ child.kind \in {"exited", "signaled"}
    /\ \E ok \in BOOLEAN :
         IF ok
         THEN /\ procState' = child
              /\ waitErr' = WaitResult(child)
         ELSE /\ procState' = procState
              /\ waitErr' = "other"
    /\ supPc' = "close"
    /\ UNCHANGED <<daemon, exitCode, sigs, sigsClosed, child, childSignals,
                   fwdPc, fwdSig, nSignals, dropped, rnPc, provSigs, renewable,
                   lease, renewals, now, deadline, doneAt, termAt, killAt>>
    /\ UNCHANGED <<dvars, evars>>

\* close(sigs)
CloseSigs ==
    /\ supPc = "close"
    /\ sigsClosed' = TRUE
    /\ supPc' = "exit"
    /\ UNCHANGED <<daemon, exitCode, sigs, waitErr, procState, child,
                   childSignals, fwdPc, fwdSig, nSignals, dropped, rnPc,
                   provSigs, renewable, lease, renewals, now, deadline, doneAt,
                   termAt, killAt>>
    /\ UNCHANGED <<dvars, evars>>

\* os.Exit(...)
OsExit ==
    /\ supPc = "exit"
    /\ exitCode' = SupervisorExitCode(waitErr, procState)
    /\ supPc' = "exited"
    /\ UNCHANGED <<daemon, sigs, sigsClosed, waitErr, procState, child,
                   childSignals, fwdPc, fwdSig, nSignals, dropped, rnPc,
                   provSigs, renewable, lease, renewals, now, deadline, doneAt,
                   termAt, killAt>>
    /\ UNCHANGED <<dvars, evars>>

\* the sender behind signal.Notify never blocks:
\* select { case c <- sig: default: }
NotifySend(ch, e) == IF Len(ch) < SigsCap THEN Append(ch, e) ELSE ch

\* the operating system delivers signal s to the supervisor process; both
\* main's channel and the provider's channel are registered with
\* signal.Notify for every signal.  A send on the closed channel panics.
Deliver(s) ==
    /\ SupAlive
    /\ nSignals < MaxSignals
    /\ nSignals' = nSignals + 1
    /\ LET e == [sig |-> s, from |-> "os"] IN
         /\ provSigs' = IF rnPc # "none" THEN NotifySend(provSigs, e)
                        ELSE provSigs
         /\ IF sigsClosed
            THEN /\ supPc' = "panicked"
                 /\ exitCode' = 2
                 /\ UNCHANGED <<sigs, dropped>>
            ELSE /\ sigs' = NotifySend(sigs, e)
                 /\ dropped' =
                      IF Len(sigs) < SigsCap THEN dropped
                      ELSE Append(dropped,
                                  [sig |-> s,
                                   childRunning |-> child.kind = "running"])
                 /\ UNCHANGED <<supPc, exitCode>>
    /\ UNCHANGED <<daemon, sigsClosed, waitErr, procState, child, childSignals,
                   fwdPc, fwdSig, rnPc, renewable, lease, renewals, now,
                   deadline, doneAt, termAt, killAt>>
    /\ UNCHANGED <<dvars, evars>>

\* for sig := range sigs
FwdRecv ==
    /\ SupAlive
    /\ fwdPc = "recv"
    /\ IF sigs # <<>>
       THEN /\ fwdSig' = Head(sigs)
            /\ sigs' = Tail(sigs)
            /\ fwdPc' = "check"
       ELSE /\ sigsClosed
            /\ fwdPc' = "done"
            /\ UNCHANGED <<fwdSig, sigs>>
    /\ UNCHANGED <<daemon, supPc, exitCode, sigsClosed, waitErr, procState,
                   child, childSignals, nSignals, dropped, rnPc, provSigs,
                   renewable, lease, renewals, now, deadline, doneAt, termAt,
                   killAt>>
    /\ UNCHANGED <<dvars, evars>>

\* if cmd.ProcessState != nil && cmd.ProcessState.Exited() { break }
FwdCheck ==
    /\ SupAlive
    /\ fwdPc = "check"
    /\ IF procState.kind # "none" /\ Exited(procState)
       THEN /\ fwdPc' = "done"
            /\ fwdSig' = NoSignal
       ELSE /\ fwdPc' = "signal"
            /\ UNCHANGED fwdSig
    /\ UNCHANGED <<daemon, supPc, exitCode, sigs, sigsClosed, waitErr,
                   procState, child, childSignals, nSignals, dropped, rnPc,
                   provSigs, renewable, lease, renewals, now, deadline, doneAt,
                   termAt, killAt>>
    /\ UNCHANGED <<dvars, evars>>

\* err := cmd.Process.Signal(sig): reaches the child only while it runs
FwdSignal ==
    /\ SupAlive
    /\ fwdPc = "signal"
    /\ childSignals' = IF child.kind = "running"
                       THEN Append(childSignals, fwdSig)
                       ELSE childSignals
    /\ fwdSig' = NoSignal
    /\ fwdPc' = "recv"
    /\ UNCHANGED <<daemon, supPc, exitCode, sigs, sigsClosed, waitErr,
                   procState, child, nSignals, dropped, rnPc, provSigs,
                   renewable, lease, renewals, now, deadline, doneAt, termAt,
                   killAt>>
    /\ UNCHANGED <<dvars, evars>>

\* the child terminates by itself with status c
ChildExit(c) ==
    /\ child.kind = "running"
    /\ child' = [kind |-> "exited", code |-> c, sig |-> ""]
    /\ UNCHANGED <<daemon, supPc, exitCode, sigs, sigsClosed, waitErr,
                   procState, childSignals, fwdPc, fwdSig, nSignals, dropped,
                   rnPc, provSigs, renewable, lease, renewals, now, deadline,
                   doneAt, termAt, killAt>>
    /\ UNCHANGED <<dvars, evars>>

\* the child is terminated by a signal s it has been sent
ChildKilled(s) ==
    /\ child.kind = "running"
    /\ \E i \in DOMAIN childSignals : childSignals[i].sig = s
    /\ child' = [kind |-> "signaled", code |-> -1, sig |-> s]
    /\ UNCHANGED <<daemon, supPc, exitCode, sigs, sigsClosed, waitErr,
                   procState, childSignals, fwdPc, fwdSig, nSignals, dropped,
                   rnPc, provSigs, renewable, lease, renewals, now, deadline,
                   doneAt, termAt, killAt>>
    /\ UNCHANGED <<dvars, evars>>

----------------------------------------------------------------------------
(* daemonSecretRenewer.Renew: the goroutine around the lifetime watcher    *)

\* case renewOutput := <-watcher.RenewCh(): log "secret renewed"
RenewOk ==
    /\ SupAlive
    /\ rnPc = "watching"
    /\ renewable
    /\ renewals < MaxRenewals
    /\ renewals' = renewals + 1
    /\ UNCHANGED <<daemon, supPc, exitCode, sigs, sigsClosed, waitErr,
                   procState, child, childSignals, fwdPc, fwdSig, nSignals,
                   dropped, rnPc, provSigs, renewable, lease, now, deadline,
                   doneAt, termAt, killAt>>
    /\ UNCHANGED <<dvars, evars>>

\* a slip: the done event leads to SIGTERM at once, without the sleep
WatcherDone_NoSleep ==
    /\ SupAlive
    /\ rnPc = "watching"
    /\ doneAt' = now
    /\ rnPc' = "sendterm"
    /\ UNCHANGED <<daemon, supPc, exitCode, sigs, sigsClosed, waitErr,
                   procState, child, childSignals, fwdPc, fwdSig, nSignals,
                   dropped, provSigs, renewable, lease, renewals, now,
                   deadline, termAt, killAt>>
    /\ UNCHANGED <<dvars, evars>>

\* case doneError := <-watcher.DoneCh(): a non-renewable secret first
\* sleeps for its lease duration
WatcherDone ==
    /\ SupAlive
    /\ rnPc = "watching"
    /\ doneAt' = now
    /\ IF ~renewable
       THEN /\ rnPc' = "sleep"
            /\ deadline' = now + lease
       ELSE /\ rnPc' = "sendterm"
            /\ UNCHANGED deadline
    /\ UNCHANGED <<daemon, supPc, exitCode, sigs, sigsClosed, waitErr,
                   procState, child, childSignals, fwdPc, fwdSig, nSignals,
                   dropped, provSigs, renewable, lease, renewals, now, termAt,
                   killAt>>
    /\ UNCHANGED <<dvars, evars>>

\* time.Sleep(leaseDuration) returns
SleepOver ==
    /\ SupAlive
    /\ rnPc = "sleep"
    /\ now >= deadline
    /\ rnPc' = "sendterm"
    /\ UNCHANGED <<daemon, supPc, exitCode, sigs, sigsClosed, waitErr,
                   procState, child, childSignals, fwdPc, fwdSig, nSignals,
                   dropped, provSigs, renewable, lease, renewals, now,
                   deadline, doneAt, termAt, killAt>>
    /\ UNCHANGED <<dvars, evars>>

\* r.sigs <- syscall.SIGTERM and, later, r.sigs <- syscall.SIGKILL; return.
\* r.sigs is the channel vault.NewProvider made; a send blocks while the
\* buffer is full.
RenewerSend ==
    /\ SupAlive
    /\ rnPc \in {"sendterm", "sendkill"}
    /\ Len(provSigs) < SigsCap
    /\ IF rnPc = "sendterm"
       THEN /\ provSigs' = Append(provSigs, [sig |-> "SIGTERM", from |-> "renewer"])
            /\ termAt' = now
            /\ deadline' = now + GraceSeconds
            /\ rnPc' = "grace"
            /\ UNCHANGED killAt
       ELSE /\ provSigs' = Append(provSigs, [sig |-> "SIGKILL", from |-> "renewer"])
            /\ killAt' = now
            /\ rnPc' = "returned"
            /\ UNCHANGED <<termAt, deadline>>
    /\ UNCHANGED <<daemon, supPc, exitCode, sigs, sigsClosed, waitErr,
                   procState, child, childSignals, fwdPc, fwdSig, nSignals,
                   dropped, renewable, lease, renewals, now, doneAt>>
    /\ UNCHANGED <<dvars, evars>>

\* timeout := <-time.After(10 * time.Second)
GraceOver ==
    /\ SupAlive
    /\ rnPc = "grace"
    /\ now >= deadline
    /\ rnPc' = "sendkill"
    /\ UNCHANGED <<daemon, supPc, exitCode, sigs, sigsClosed, waitErr,
                   procState, child, childSignals, fwdPc, fwdSig, nSignals,
                   dropped, provSigs, renewable, lease, renewals, now,
                   deadline, doneAt, termAt, killAt>>
    /\ UNCHANGED <<dvars, evars>>

\* one second passes on a running timer
Tick ==
    /\ SupAlive
    /\ rnPc \in {"sleep", "grace"}
    /\ now < deadline
    /\ now' = now + 1
    /\ UNCHANGED <<daemon, supPc, exitCode, sigs, sigsClosed, waitErr,
                   procState, child, childSignals, fwdPc, fwdSig, nSignals,
                   dropped, rnPc, provSigs, renewable, lease, renewals,
                   deadline, doneAt, termAt, killAt>>
    /\ UNCHANGED <<dvars, evars>>

SupNext ==
    \/ CmdStart
    \/ GoForwarder
    \/ CmdWait
    \/ CloseSigs
    \/ OsExit
    \/ \E s \in ExtSignals : Deliver(s)
    \/ FwdRecv
    \/ FwdCheck
    \/ FwdSignal
    \/ \E c \in ChildCodes : ChildExit(c)
    \/ \E s \in ExtSignals \cup {"SIGKILL"} : ChildKilled(s)
    \/ RenewOk
    \/ WatcherDone
    \/ SleepOver
    \/ RenewerSend
    \/ GraceOver
    \/ Tick

SupSpec == SupInit /\ [][SupNext]_vars

\* every step of the program itself is taken when it stays possible; the
\* arrival of signals, the child's own exit and the watcher's events are not
\* forced
SupFairness ==
    /\ WF_vars(CmdStart)
    /\ WF_vars(GoForwarder)
    /\ WF_vars(CmdWait)
    /\ WF_vars(CloseSigs)
    /\ WF_vars(OsExit)
    /\ WF_vars(FwdRecv)
    /\ WF_vars(FwdCheck)
    /\ WF_vars(FwdSignal)
    /\ WF_vars(ChildKilled("SIGKILL"))
    /\ WF_vars(SleepOver)
    /\ WF_vars(RenewerSend)
    /\ WF_vars(GraceOver)
    /\ WF_vars(Tick)

SupFairSpec == SupSpec /\ SupFairness

----------------------------------------------------------------------------
(* The child's environment: ConvertProviderSecrets, cmd.Env, cmd.Start     *)
(* Strings are sequences of tokens, "=" being one of them.                 *)

MaxSecrets == 2

\* fmt.Sprintf("%s=%s", k, v)
Sprintf(k, v) == k \o <<"=">> \o v

\* the name of an environment entry: what precedes its first "="
RECURSIVE EnvKey(_)
EnvKey(kv) ==
    IF kv = <<>> \/ Head(kv) = "=" THEN <<>>
    ELSE <<Head(kv)>> \o EnvKey(Tail(kv))

\* for _, secret := range providerSecrets {
\*     secretsEnv = append(secretsEnv, fmt.Sprintf("%s=%s", secret.Key, secret.Value)) }
RECURSIVE ConvertProviderSecrets(_)
ConvertProviderSecrets(secrets) ==
    IF secrets = <<>> THEN <<>>
    ELSE <<Sprintf(Head(secrets).Key, Head(secrets).Value)>>
         \o ConvertProviderSecrets(Tail(secrets))

\* cmd.Env = append(os.Environ(), secretsEnv...)
CmdEnv(environ, extra) == environ \o extra

\* a slip: the list is handed to the child as it is (as syscall.Exec would)
ChildEnviron_NoDedup(env) == env

\* cmd.Start() starts the child with cmd.Env in which, for every name, only
\* the last entry is kept (os/exec), the order of the kept entries unchanged
ChildEnviron(env) ==
    LET keep(i) == \A j \in (i+1)..Len(env) : EnvKey(env[j]) # EnvKey(env[i])
        F[i \in 0..Len(env)] ==
            IF i = 0 THEN <<>>
            ELSE IF keep(i) THEN Append(F[i-1], env[i]) ELSE F[i-1]
    IN F[Len(env)]

\* names and values of the inherited environment; "ref" stands for a value
\* some provider's predicate accepts
InheritedNames == <<"A", "B">>
InheritedValues == {"-", "plain", "ref"}

Inherited(f) ==
    LET G[i \in 0..Len(InheritedNames)] ==
            IF i = 0 THEN <<>>
            ELSE IF f[InheritedNames[i]] = "-" THEN G[i-1]
            ELSE Append(G[i-1], Sprintf(<<InheritedNames[i]>>, <<f[InheritedNames[i]]>>))
    IN G[Len(InheritedNames)]

\* keys a loader can return: the name of a reference entry, or any field name
\* met in from-path mode
SecretKeys == {<<"A">>, <<"B">>, <<"A", "=", "B">>}
SecretValues == {<<"v">>, <<"w">>}
Secrets == [Key : SecretKeys, Value : SecretValues]

SeqsUpTo(S, n) == UNION {[1..k -> S] : k \in 0..n}

EnvInit ==
    /\ DispatchIdle
    /\ SupIdle
    /\ \E f \in [Range(InheritedNames) -> InheritedValues] : osEnviron = Inherited(f)
    /\ loaded \in SeqsUpTo(Secrets, MaxSecrets)
    /\ secretsEnv = <<>>
    /\ cmdEnv = <<>>
    /\ childEnv = <<>>
    /\ envPc = "convert"
    /\ PipeIdle

\* secretsEnv := envStore.ConvertProviderSecrets(providerSecrets)
Convert ==
    /\ envPc = "convert"
    /\ secretsEnv' = ConvertProviderSecrets(loaded)
    /\ envPc' = "command"
    /\ UNCHANGED <<osEnviron, loaded, cmdEnv, childEnv>>
    /\ UNCHANGED <<data, secretReferences, sanitizeEnvmap, config, provided,
                   results, revoke,
                   osArgs, entrypoint>>
    /\ UNCHANGED <<dvars, svars>>

\* cmd := exec.Command(binaryPath, binaryArgs...); cmd.Env = ...
Command ==
    /\ envPc = "command"
    /\ cmdEnv' = CmdEnv(osEnviron, secretsEnv)
    /\ envPc' = "start"
    /\ UNCHANGED <<osEnviron, loaded, secretsEnv, childEnv>>
    /\ UNCHANGED <<data, secretReferences, sanitizeEnvmap, config, provided,
                   results, revoke,
                   osArgs, entrypoint>>
    /\ UNCHANGED <<dvars, svars>>

\* err = cmd.Start()
Start ==
    /\ envPc = "start"
    /\ \E ok \in BOOLEAN :
         IF ok
         THEN /\ childEnv' = ChildEnviron(cmdEnv)
              /\ envPc' = "spawned"
         ELSE /\ envPc' = "failed"
              /\ UNCHANGED childEnv
    /\ UNCHANGED <<osEnviron, loaded, secretsEnv, cmdEnv>>
    /\ UNCHANGED <<data, secretReferences, sanitizeEnvmap, config, provided,
                   results, revoke,
                   osArgs, entrypoint>>
    /\ UNCHANGED <<dvars, svars>>

EnvNext ==
    \/ Convert
    \/ Command
    \/ Start

EnvSpec == EnvInit /\ [][EnvNext]_vars

----------------------------------------------------------------------------
(* The start-up pipeline: snapshot, GetSecretReferences, the providers'    *)
(* LoadConfig / NewProvider / LoadSecrets, then the spawn (PipeSpec).      *)
(* A value is a sequence of tokens; <<>> stands for "not set".             *)

Plain == <<"plain">>
FileRef == <<"file:", "f">>
VaultRef == <<"vault:", "p", "#", "f">>
BaoRef == <<"bao:", "p", "#", "f">>
\* "file:vault:p#f": file.Valid and vault.Valid both accept it
FileVaultRef == <<"file:", "vault:", "p", "#", "f">>

\* the providers whose references the pipeline's environments can hold
PipeProviders == {"file", "vault", "bao"}
Injected == {"vault", "bao"}

\* the value of an entry: what follows its first "="
EnvValue(kv) == SubSeq(kv, Len(EnvKey(kv)) + 2, Len(kv))

\* os.LookupEnv, os.Getenv, os.Unsetenv, os.Setenv on the process environment
LookupEnv(env, k) == \E i \in DOMAIN env : EnvKey(env[i]) = <<k>>

Getenv(env, k) ==
    IF LookupEnv(env, k)
    THEN EnvValue(env[CHOOSE i \in DOMAIN env : EnvKey(env[i]) = <<k>>])
    ELSE <<>>

Unsetenv(env, k) == SelectSeq(env, LAMBDA kv : EnvKey(kv) # <<k>>)

Setenv(env, k, v) ==
    IF LookupEnv(env, k)
    THEN [i \in DOMAIN env |->
             IF EnvKey(env[i]) = <<k>> THEN Sprintf(<<k>>, v) ELSE env[i]]
    ELSE Append(env, Sprintf(<<k>>, v))

\* NewEnvStore: environ[name] = value for every entry of os.Environ()
NewEnvStore(environ) ==
    [k \in {EnvKey(environ[i]) : i \in DOMAIN environ} |->
        EnvValue(environ[CHOOSE i \in DOMAIN environ :
                            /\ EnvKey(environ[i]) = k
                            /\ \A j \in (i+1)..Len(environ) :
                                   EnvKey(environ[j]) # k])]

\* the referenceSelector of the prefix-matching providers
Selector(t) ==
    CASE t = "file" -> {"file:"}
      [] t = "aws" -> {"arn:aws:secretsmanager:", "arn:aws:ssm:"}
      [] t = "gcp" -> {"gcp:secretmanager:"}
      [] t = "azure" -> {"azure:keyvault:"}
      [] t = "vault" -> {"vault:"}
      [] t = "bao" -> {"bao:"}

\* factory.Validator: strings.HasPrefix for file, aws, gcp, azure; the regular
\* expression (vault:)(.*)#(.*), respectively (bao:)(.*)#(.*), anywhere in
\* the value for vault and bao
Valid(t, v) ==
    IF t \in Injected
    THEN \E i, j \in DOMAIN v : i < j /\ v[i] \in Selector(t) /\ v[j] = "#"
    ELSE v # <<>> /\ v[1] \in Selector(t)

\* the orders in which a range over the map s.data can visit its keys
Orders(S) ==
    {q \in [1..Cardinality(S) -> S] : \A i, j \in DOMAIN q : i # j => q[i] # q[j]}

\* a slip: an entry goes to the group of the first matching factory only
RECURSIVE GroupOf_FirstMatch(_, _, _)
GroupOf_FirstMatch(t, d, ks) ==
    IF ks = <<>> THEN <<>>
    ELSE (IF /\ Valid(t, d[Head(ks)])
             /\ \A i \in DOMAIN factories :
                    Valid(factories[i], d[Head(ks)])
                        => \E j \in 1..i : factories[j] = t
          THEN <<Sprintf(Head(ks), d[Head(ks)])>>
          ELSE <<>>)
         \o GroupOf_FirstMatch(t, d, Tail(ks))

\* the entries GetSecretReferences appends to the group of provider t when
\* the range visits the keys in the order ks
RECURSIVE GroupOf(_, _, _)
GroupOf(t, d, ks) ==
    IF ks = <<>> THEN <<>>
    ELSE (IF Valid(t, d[Head(ks)]) THEN <<Sprintf(Head(ks), d[Head(ks)])>>
          ELSE <<>>)
         \o GroupOf(t, d, Tail(ks))

FromPathEnv(p) == IF p = "vault" THEN "VAULT_FROM_PATH" ELSE "BAO_FROM_PATH"

\* checkFromPath: a provider whose *_FROM_PATH is set and that has no group
\* gets an empty one
checkFromPath(d, refs) ==
    LET add == {p \in Injected :
                   p \notin DOMAIN refs /\ <<FromPathEnv(p)>> \in DOMAIN d}
    IN [p \in (DOMAIN refs) \cup add |->
           IF p \in DOMAIN refs THEN refs[p] ELSE <<>>]

\* GetSecretReferences; the definition at env_store.go:276-287 has no
\* checkFromPath
GetSecretReferences(d, ks, withCheck) ==
    LET hit == {t \in ProviderTypes : GroupOf(t, d, ks) # <<>>}
        refs == [t \in hit |-> GroupOf(t, d, ks)]
    IN IF withCheck THEN checkFromPath(d, refs) ELSE refs

\* the environment variables the vault and bao packages read
TokenEnv(p) == IF p = "vault" THEN "VAULT_TOKEN" ELSE "BAO_TOKEN"
TokenFileEnv(p) == IF p = "vault" THEN "VAULT_TOKEN_FILE" ELSE "BAO_TOKEN_FILE"
AddrEnv(p) == IF p = "vault" THEN "VAULT_ADDR" ELSE "BAO_ADDR"
RoleEnv(p) == IF p = "vault" THEN "VAULT_ROLE" ELSE "BAO_ROLE"
PathEnv(p) == IF p = "vault" THEN "VAULT_PATH" ELSE "BAO_PATH"
AuthMethodEnv(p) == IF p = "vault" THEN "VAULT_AUTH_METHOD" ELSE "BAO_AUTH_METHOD"
PassthroughEnv(p) == IF p = "vault" THEN "VAULT_PASSTHROUGH" ELSE "BAO_PASSTHROUGH"
RevokeTokenEnv(p) == IF p = "vault" THEN "VAULT_REVOKE_TOKEN" ELSE "BAO_REVOKE_TOKEN"

\* vaultLogin, baoLogin: the sentinel value of the token variable
LoginValue(p) == IF p = "vault" THEN <<"vault:login">> ELSE <<"bao:login">>

\* the keys of sanitizeEnvmap that the pipeline's environments can hold
LoginKeys(p) == {TokenEnv(p), AddrEnv(p)}
OperationalKeys(p) ==
    {RoleEnv(p), PathEnv(p), AuthMethodEnv(p), PassthroughEnv(p),
     RevokeTokenEnv(p), FromPathEnv(p)}

\* var sanitizeEnvmap = map[string]envType{...}: key |-> envType.login
SanitizeEnvmap(p) ==
    [k \in LoginKeys(p) \cup OperationalKeys(p) |-> k \in LoginKeys(p)]

NoConfig ==
    [Addr |-> <<>>, IsLogin |-> FALSE, Token |-> <<>>, TokenFile |-> FALSE,
     FromPath |-> <<>>, RevokeToken |-> FALSE]

\* the token the file *_TOKEN_FILE names holds
TokenFileContent == <<"filetoken">>

\* os.ReadFile(tokenFile): the bytes of the file, which for the second file
\* end with a newline
ReadFile(tokenFile) ==
    IF tokenFile = <<"tokenfile-newline">>
    THEN TokenFileContent \o <<"\n">>
    ELSE TokenFileContent

\* a slip: only the role is required
LoadConfig_RoleOnly(p, env, smap, fileOk) ==
    LET env0 == IF p = "bao"
                THEN Setenv(env, "VAULT_ADDR", Getenv(env, AddrEnv(p)))
                ELSE env
        token == Getenv(env0, TokenEnv(p))
        isLogin == token = LoginValue(p)
        hasFile == LookupEnv(env0, TokenFileEnv(p))
        env1 == IF ~hasFile /\ isLogin THEN Unsetenv(env0, TokenEnv(p))
                ELSE env0
        complete == LookupEnv(env1, RoleEnv(p))
        env2 == IF isLogin THEN Setenv(env1, TokenEnv(p), LoginValue(p))
                ELSE env1
        passthroughEnvVars ==
            Range(Getenv(env1, PassthroughEnv(p)))
                \cup (IF isLogin THEN {TokenEnv(p)} ELSE {})
    IN IF hasFile /\ ~fileOk
       THEN [err |-> TRUE, env |-> env0, smap |-> smap, cfg |-> NoConfig]
       ELSE IF ~hasFile /\ ~complete
       THEN [err |-> TRUE, env |-> env1, smap |-> smap, cfg |-> NoConfig]
       ELSE [err |-> FALSE, env |-> env2,
             smap |-> [k \in (DOMAIN smap) \ passthroughEnvVars |-> smap[k]],
             cfg |-> [Addr |-> Getenv(env2, AddrEnv(p)),
                      IsLogin |-> isLogin,
                      Token |-> IF hasFile
                                THEN ReadFile(Getenv(env0, TokenFileEnv(p)))
                                ELSE token,
                      TokenFile |-> hasFile,
                      FromPath |-> Getenv(env2, FromPathEnv(p)),
                      RevokeToken |->
                          Getenv(env2, RevokeTokenEnv(p)) = <<"true">>]]

\* LoadConfig of the vault and bao packages: [err, env, smap, cfg], env and
\* smap being the process environment and the sanitize map it leaves behind.
\* Addr is the address the client is then built with: Bao's client is given
\* config.Addr, Vault's client is given no URL and takes VAULT_ADDR from the
\* same process environment.
LoadConfig(p, env, smap, fileOk) ==
    LET env0 == IF p = "bao"
                THEN Setenv(env, "VAULT_ADDR", Getenv(env, AddrEnv(p)))
                ELSE env
        token == Getenv(env0, TokenEnv(p))
        isLogin == token = LoginValue(p)
        hasFile == LookupEnv(env0, TokenFileEnv(p))
        env1 == IF ~hasFile /\ isLogin THEN Unsetenv(env0, TokenEnv(p))
                ELSE env0
        complete == \A k \in {RoleEnv(p), PathEnv(p), AuthMethodEnv(p)} :
                        LookupEnv(env1, k)
        env2 == IF isLogin THEN Setenv(env1, TokenEnv(p), LoginValue(p))
                ELSE env1
        passthroughEnvVars ==
            Range(Getenv(env1, PassthroughEnv(p)))
                \cup (IF isLogin THEN {TokenEnv(p)} ELSE {})
    IN IF hasFile /\ ~fileOk
       THEN [err |-> TRUE, env |-> env0, smap |-> smap, cfg |-> NoConfig]
       ELSE IF ~hasFile /\ ~complete
       THEN [err |-> TRUE, env |-> env1, smap |-> smap, cfg |-> NoConfig]
       ELSE [err |-> FALSE, env |-> env2,
             smap |-> [k \in (DOMAIN smap) \ passthroughEnvVars |-> smap[k]],
             cfg |-> [Addr |-> Getenv(env2, AddrEnv(p)),
                      IsLogin |-> isLogin,
                      Token |-> IF hasFile
                                THEN ReadFile(Getenv(env0, TokenFileEnv(p)))
                                ELSE token,
                      TokenFile |-> hasFile,
                      FromPath |-> Getenv(env2, FromPathEnv(p)),
                      RevokeToken |->
                          Getenv(env2, RevokeTokenEnv(p)) = <<"true">>]]

\* NewProvider: the client logs in with config.Token when a token file is
\* configured, with the role, path and method otherwise
ClientAuth(cfg) == IF cfg.TokenFile THEN "token" ELSE "role"

\* sanitized.append: a key of the sanitize map is dropped unless this is a
\* login scenario and the key is login-class
SanitizedAppend(secrets, login, smap, key, value) ==
    IF \/ ~(Len(key) = 1 /\ key[1] \in DOMAIN smap)
       \/ (login /\ smap[key[1]])
    THEN Append(secrets, [Key |-> key, Value |-> value])
    ELSE secrets

\* the inject closure of LoadSecrets; bao's returns early when
\* utils.IsKeyDuplicated finds the key among the secrets gathered so far
Inject(p, secrets, login, smap, key, value) ==
    IF p = "bao" /\ \E i \in DOMAIN secrets : secrets[i].Key = key
    THEN secrets
    ELSE SanitizedAppend(secrets, login, smap, key, value)

\* what the server holds for a reference, and for a field of the from-path
Resolved(p) == <<"secret-from", p>>
PathSecret(p) == <<"path-secret-from", p>>

\* the names of the fields of the secret at *_FROM_PATH
FromPathKeys == {<<"A">>, <<"P">>}

\* the content of a file of the mount path
FileContent == <<"file-content">>

\* the token the client holds after its login exchange
AcquiredToken(p) == <<"token-acquired-from", p>>

\* InjectSecretsFromVault / InjectSecretsFromBao over the group: every entry
\* is injected under its own name; the token variable holding the login
\* sentinel gets the client's token; a value that does not start with the
\* selector is resolved or, when literal, handed over as it is
RECURSIVE InjectAll(_, _, _, _, _, _)
InjectAll(p, paths, secrets, login, smap, literal) ==
    IF paths = <<>> THEN secrets
    ELSE LET k == EnvKey(Head(paths))
             v == EnvValue(Head(paths))
             val == IF k = <<TokenEnv(p)>> /\ v = LoginValue(p)
                    THEN AcquiredToken(p)
                    ELSE IF v[1] \notin Selector(p) /\ literal THEN v
                    ELSE Resolved(p)
         IN InjectAll(p, Tail(paths),
                      Inject(p, secrets, login, smap, k, val),
                      login, smap, literal)

\* Provider.LoadSecrets of vault and bao: the group, then the from-path field
InjectorLoadSecrets(p, paths, cfg, smap, literal, fk) ==
    LET direct == InjectAll(p, paths, <<>>, cfg.IsLogin, smap, literal)
    IN IF cfg.FromPath # <<>>
       THEN Inject(p, direct, cfg.IsLogin, smap, fk, PathSecret(p))
       ELSE direct

\* Provider.LoadSecrets of file: one Secret per path, under the entry's name
FileLoadSecrets(paths) ==
    [i \in DOMAIN paths |-> [Key |-> EnvKey(paths[i]), Value |-> FileContent]]

\* the entries of the pairs <<name, value>> whose value is set
RECURSIVE Environ(_)
Environ(pairs) ==
    IF pairs = <<>> THEN <<>>
    ELSE (IF Head(pairs)[2] = <<>> THEN <<>>
          ELSE <<Sprintf(<<Head(pairs)[1]>>, Head(pairs)[2])>>)
         \o Environ(Tail(pairs))

Set(b, v) == IF b THEN v ELSE <<>>

\* The inherited environments.  One family varies the references (A, B and
\* the two *_FROM_PATH) under a complete role-based Vault and Bao
\* configuration; the other varies the Vault configuration around one Vault
\* reference.
PipeInit ==
    /\ vaultFirst \in BOOLEAN
    /\ WorkersIdle
    /\ SupIdle
    /\ \E a \in {Plain, FileRef, VaultRef, BaoRef, FileVaultRef},
          b \in {<<>>, VaultRef},
          token \in {<<>>, <<"tok">>, LoginValue("vault")},
          role \in {<<>>, <<"role">>, VaultRef},
          pass \in {<<>>, <<"VAULT_ROLE">>, <<"VAULT_TOKEN">>},
          tokenFile \in {<<>>, <<"tokenfile">>, <<"tokenfile-newline">>},
          vaultAddr \in {<<>>, <<"vault-addr">>},
          baoAddr \in {<<>>, <<"bao-addr">>},
          path, method, vaultFrom, bao, baoFrom, revokeToken \in BOOLEAN :
         /\ \/ /\ token = <<>> /\ tokenFile = <<>> /\ pass = <<>>
               /\ ~revokeToken
               /\ role = <<"role">> /\ path /\ method
            \/ /\ a = VaultRef /\ b = <<>> /\ ~bao /\ ~baoFrom
               /\ vaultAddr = <<>> /\ baoAddr = <<>>
         /\ osEnviron = Environ(<<
                <<"A", a>>, <<"B", b>>,
                <<"VAULT_ADDR", vaultAddr>>,
                <<"BAO_ADDR", baoAddr>>,
                <<"VAULT_TOKEN", token>>,
                <<"VAULT_TOKEN_FILE", tokenFile>>,
                <<"VAULT_ROLE", role>>,
                <<"VAULT_PATH", Set(path, <<"path">>)>>,
                <<"VAULT_AUTH_METHOD", Set(method, <<"method">>)>>,
                <<"VAULT_PASSTHROUGH", pass>>,
                <<"VAULT_REVOKE_TOKEN", Set(revokeToken, <<"true">>)>>,
                <<"VAULT_FROM_PATH", Set(vaultFrom, <<"frompath">>)>>,
                <<"BAO_ROLE", Set(bao, <<"role">>)>>,
                <<"BAO_PATH", Set(bao, <<"path">>)>>,
                <<"BAO_AUTH_METHOD", Set(bao, <<"method">>)>>,
                <<"BAO_FROM_PATH", Set(baoFrom, <<"frompath">>)>> >>)
    /\ loaded = <<>>
    /\ secretsEnv = <<>>
    /\ cmdEnv = <<>>
    /\ childEnv = <<>>
    /\ envPc = "prepare"
    /\ data = <<>>
    /\ secretReferences = <<>>
    /\ sanitizeEnvmap = [p \in Injected |-> SanitizeEnvmap(p)]
    /\ config = [p \in Injected |-> NoConfig]
    /\ provided = [p \in PipeProviders |-> "none"]
    /\ results = [p \in PipeProviders |-> <<>>]
    /\ revoke = [p \in Injected |-> "none"]
    /\ osArgs = <<>>
    /\ entrypoint = <<>>

\* main up to the snapshot: common.LoadConfig, ExtractEntrypoint, NewEnvStore;
\* a failure of the first two ends in os.Exit(1)
Prepare ==
    /\ envPc = "prepare"
    /\ \E configOk, entrypointOk \in BOOLEAN :
         IF configOk /\ entrypointOk
         THEN /\ data' = NewEnvStore(osEnviron)
              /\ envPc' = "references"
         ELSE /\ envPc' = "exit1"
              /\ UNCHANGED data
    /\ UNCHANGED <<osEnviron, loaded, secretsEnv, cmdEnv, childEnv,
                   secretReferences, sanitizeEnvmap, config, provided, results, revoke,
                   osArgs, entrypoint>>
    /\ UNCHANGED <<dvars, svars>>

\* envStore.GetSecretReferences()
References ==
    /\ envPc = "references"
    /\ \E ks \in Orders({k \in DOMAIN data :
                            \E t \in ProviderTypes : Valid(t, data[k])}) :
         secretReferences' = GetSecretReferences(data, ks, ~vaultFirst)
    /\ envPc' = "dispatch"
    /\ UNCHANGED <<osEnviron, loaded, secretsEnv, cmdEnv, childEnv, data,
                   sanitizeEnvmap, config, provided, results, revoke,
                   osArgs, entrypoint>>
    /\ UNCHANGED <<dvars, svars>>

\* what a provider's worker ends with: its secrets loaded, or an error of
\* LoadConfig, of the rest of NewProvider, or of LoadSecrets
Settled == {"loaded", "configFailed", "createFailed", "loadFailed"}

\* the serial Vault step of env_store.go:296-304 lets Vault run alone first
MayRun(p) ==
    /\ envPc = "dispatch"
    /\ p \in DOMAIN secretReferences
    /\ (vaultFirst /\ "vault" \in DOMAIN secretReferences
            /\ provided["vault"] \notin Settled)
           => p = "vault"

\* where a failure of provider p leaves main: the serial Vault step returns
\* the error at once
AfterFailure(p) == IF vaultFirst /\ p = "vault" THEN "exit1" ELSE "dispatch"

\* factory.Create: file.NewProvider checks the mount path; the NewProvider
\* of vault and bao runs LoadConfig and builds the client
PipeCreate(p) ==
    /\ MayRun(p)
    /\ provided[p] = "none"
    /\ \E fileOk, clientOk \in BOOLEAN :
         IF p = "file"
         THEN /\ provided' = [provided EXCEPT ![p] =
                                 IF fileOk THEN "created" ELSE "createFailed"]
              /\ envPc' = IF fileOk THEN envPc ELSE AfterFailure(p)
              /\ UNCHANGED <<osEnviron, sanitizeEnvmap, config>>
         ELSE LET lc == LoadConfig(p, osEnviron, sanitizeEnvmap[p], fileOk)
                  ok == ~lc.err /\ clientOk
              IN /\ osEnviron' = lc.env
                 /\ sanitizeEnvmap' = [sanitizeEnvmap EXCEPT ![p] = lc.smap]
                 /\ config' = [config EXCEPT ![p] = lc.cfg]
                 /\ provided' = [provided EXCEPT ![p] =
                                    IF lc.err THEN "configFailed"
                                    ELSE IF clientOk THEN "created"
                                    ELSE "createFailed"]
                 /\ envPc' = IF ok THEN envPc ELSE AfterFailure(p)
    /\ UNCHANGED <<loaded, secretsEnv, cmdEnv, childEnv, data,
                   secretReferences, results, revoke,
                   osArgs, entrypoint>>
    /\ UNCHANGED <<dvars, svars>>

\* if p.revokeToken { err := ...RevokeSelfWithContext(...) }: what the call
\* did, once the injection has succeeded
RevokeSelf(l, cfg, injected, revokeOk) ==
    IF l \in Injected /\ injected /\ cfg[l].RevokeToken
    THEN [revoke EXCEPT ![l] = IF revokeOk THEN "revoked" ELSE "denied"]
    ELSE revoke

\* a slip: a revoke-self call that fails makes LoadSecrets fail
LoadSecretsOk_RevokeFatal(l, cfg, injected, revokeOk) ==
    injected /\ (l \in Injected /\ cfg[l].RevokeToken => revokeOk)

\* LoadSecrets returns no error: the injection succeeded; a failure of the
\* revoke-self call is only logged
LoadSecretsOk(l, cfg, injected, revokeOk) ==
    injected

\* provider.LoadSecrets(ctx, paths) and, on success, the append to the sink
PipeLoad(p) ==
    /\ MayRun(p)
    /\ provided[p] = "created"
    /\ \E ok, revokeOk, literal \in BOOLEAN, fk \in FromPathKeys :
       /\ revoke' = RevokeSelf(p, config, ok, revokeOk)
       /\ IF LoadSecretsOk(p, config, ok, revokeOk)
         THEN LET secrets ==
                      IF p = "file" THEN FileLoadSecrets(secretReferences[p])
                      ELSE InjectorLoadSecrets(p, secretReferences[p],
                                               config[p], sanitizeEnvmap[p],
                                               literal, fk)
              IN /\ results' = [results EXCEPT ![p] = secrets]
                 /\ loaded' = loaded \o secrets
                 /\ provided' = [provided EXCEPT ![p] = "loaded"]
                 /\ UNCHANGED envPc
         ELSE /\ provided' = [provided EXCEPT ![p] = "loadFailed"]
              /\ envPc' = AfterFailure(p)
              /\ UNCHANGED <<results, loaded>>
    /\ UNCHANGED <<osEnviron, secretsEnv, cmdEnv, childEnv, data,
                   secretReferences, sanitizeEnvmap, config, osArgs,
                   entrypoint>>
    /\ UNCHANGED <<dvars, svars>>

PipeFailed ==
    {p \in PipeProviders : provided[p] \in Settled \ {"loaded"}}

\* a slip: main goes on to the spawn with what the other providers loaded
Dispatched_IgnoreErrors ==
    /\ envPc = "dispatch"
    /\ \A p \in DOMAIN secretReferences :
           provided[p] \in Settled
    /\ envPc' = "convert"
    /\ UNCHANGED <<osEnviron, loaded, secretsEnv, cmdEnv, childEnv, data,
                   secretReferences, sanitizeEnvmap, config, provided, results, revoke,
                   osArgs, entrypoint>>
    /\ UNCHANGED <<dvars, svars>>

\* LoadProviderSecrets returns once every worker is done; on an error main
\* logs it and calls os.Exit(1)
Dispatched ==
    /\ envPc = "dispatch"
    /\ \A p \in DOMAIN secretReferences :
           provided[p] \in Settled
    /\ envPc' = IF PipeFailed # {} THEN "exit1" ELSE "convert"
    /\ UNCHANGED <<osEnviron, loaded, secretsEnv, cmdEnv, childEnv, data,
                   secretReferences, sanitizeEnvmap, config, provided, results, revoke,
                   osArgs, entrypoint>>
    /\ UNCHANGED <<dvars, svars>>

PipeNext ==
    \/ Prepare
    \/ References
    \/ \E p \in PipeProviders : PipeCreate(p)
    \/ \E p \in PipeProviders : PipeLoad(p)
    \/ Dispatched
    \/ Convert
    \/ Command
    \/ Start

PipeSpec == PipeInit /\ [][PipeNext]_vars

----------------------------------------------------------------------------
(* One call of a provider's LoadSecrets, on any input list (LoadSpec).     *)

\* the loaders of the tree; bitwarden's has no entry in factories
Loaders == PipeProviders \cup {"bitwarden", "aws"}

\* what a Bitwarden entry names: a secret, or the organization
SecretID == <<"secret-id">>
OrganizationID == <<"organization-id">>

\* the key the Bitwarden service holds for a secret
BitwardenKeys == {<<"A">>, <<"BW_NAME">>}
BitwardenValue == <<"bw-value">>
JsonSecrets == <<"bw-json">>

\* references the AWS validator accepts: a Secrets Manager secret, an SSM
\* parameter, and a Secrets Manager identifier that goes on with "ssm:"
SecretsManagerRef == <<"arn:aws:secretsmanager:", "secret-name">>
ParameterRef == <<"arn:aws:ssm:", "parameter-name">>
NestedRef == <<"arn:aws:secretsmanager:", "secret-name", "ssm:", "x">>

\* strings.Contains(secretID, "secretsmanager:") and
\* strings.Contains(secretID, "ssm:"), on the pieces the model's values are
\* made of
ContainsSecretsManager(secretID) ==
    \E i \in DOMAIN secretID :
        secretID[i] \in {"arn:aws:secretsmanager:", "secretsmanager:"}
ContainsSSM(secretID) ==
    \E i \in DOMAIN secretID : secretID[i] \in {"arn:aws:ssm:", "ssm:"}

SecretValue == <<"sm-value">>
ParameterValue == <<"ssm-value">>

\* Provider.LoadSecrets of aws: for every entry, one Secret from Secrets
\* Manager if the identifier contains "secretsmanager:", and one from SSM if
\* it contains "ssm:"
RECURSIVE AwsLoadSecrets(_)
AwsLoadSecrets(paths) ==
    IF paths = <<>> THEN <<>>
    ELSE LET originalKey == EnvKey(Head(paths))
             secretID == EnvValue(Head(paths))
         IN (IF ContainsSecretsManager(secretID)
             THEN <<[Key |-> originalKey, Value |-> SecretValue]>>
             ELSE <<>>)
            \o (IF ContainsSSM(secretID)
                THEN <<[Key |-> originalKey, Value |-> ParameterValue]>>
                ELSE <<>>)
            \o AwsLoadSecrets(Tail(paths))

\* the "name=reference" entries a load call of loader l can be given
EntriesFor(l) ==
    CASE l = "file" -> {Sprintf(<<"A">>, FileRef), Sprintf(<<"B">>, FileRef)}
      [] l = "vault" -> {Sprintf(<<"A">>, VaultRef), Sprintf(<<"B">>, VaultRef),
                         Sprintf(<<"VAULT_ROLE">>, VaultRef)}
      [] l = "bao" -> {Sprintf(<<"A">>, BaoRef), Sprintf(<<"B">>, BaoRef),
                       Sprintf(<<"BAO_ROLE">>, BaoRef)}
      [] l = "bitwarden" -> {Sprintf(<<"A">>, SecretID),
                             Sprintf(<<"B">>, OrganizationID)}
      [] l = "aws" -> {Sprintf(<<"A">>, SecretsManagerRef),
                       Sprintf(<<"B">>, ParameterRef),
                       Sprintf(<<"C">>, NestedRef)}

\* Provider.LoadSecrets of bitwarden: the entry's name for the organization,
\* the key the service returns (secret.Key) for a single secret
BitwardenLoadSecrets(paths, key) ==
    [i \in DOMAIN paths |->
        IF EnvValue(paths[i]) = OrganizationID
        THEN [Key |-> EnvKey(paths[i]), Value |-> JsonSecrets]
        ELSE [Key |-> key, Value |-> BitwardenValue]]

LoadInit ==
    /\ DispatchIdle
    /\ SupIdle
    /\ osEnviron = <<>>
    /\ loaded = <<>>
    /\ secretsEnv = <<>>
    /\ cmdEnv = <<>>
    /\ childEnv = <<>>
    /\ envPc = "call"
    /\ data = <<>>
    /\ osArgs = <<>>
    /\ entrypoint = <<>>
    /\ \E l \in Loaders :
         /\ \E S \in SUBSET EntriesFor(l) :
                secretReferences \in [{l} -> Orders(S)]
         /\ provided = [p \in {l} |-> "created"]
         /\ results = [p \in {l} |-> <<>>]
         /\ revoke = [p \in {l} \cap Injected |-> "none"]
         /\ config \in [{l} \cap Injected ->
                           [Addr : {<<>>}, IsLogin : BOOLEAN, Token : {<<>>},
                            TokenFile : {FALSE},
                            FromPath : {<<>>, <<"frompath">>},
                            RevokeToken : BOOLEAN]]
         /\ sanitizeEnvmap = [p \in {l} \cap Injected |-> SanitizeEnvmap(p)]

\* secrets, err := provider.LoadSecrets(ctx, paths)
LoaderCall ==
    /\ envPc = "call"
    /\ \E l \in DOMAIN secretReferences :
       \E ok, revokeOk, literal \in BOOLEAN, fk \in FromPathKeys,
          key \in BitwardenKeys :
       /\ revoke' = RevokeSelf(l, config, ok, revokeOk)
       /\ IF LoadSecretsOk(l, config, ok, revokeOk)
         THEN /\ results' = [results EXCEPT ![l] =
                   CASE l = "file" -> FileLoadSecrets(secretReferences[l])
                     [] l = "bitwarden" ->
                            BitwardenLoadSecrets(secretReferences[l], key)
                     [] l = "aws" -> AwsLoadSecrets(secretReferences[l])
                     [] OTHER ->
                            InjectorLoadSecrets(l, secretReferences[l],
                                                config[l], sanitizeEnvmap[l],
                                                literal, fk)]
              /\ provided' = [provided EXCEPT ![l] = "loaded"]
              /\ envPc' = "returned"
         ELSE /\ provided' = [provided EXCEPT ![l] = "loadFailed"]
              /\ envPc' = "returned"
              /\ UNCHANGED results
    /\ UNCHANGED <<osEnviron, loaded, secretsEnv, cmdEnv, childEnv, data,
                   secretReferences, sanitizeEnvmap, config, osArgs,
                   entrypoint>>
    /\ UNCHANGED <<dvars, svars>>

LoadNext == LoaderCall

LoadSpec == LoadInit /\ [][LoadNext]_vars

----------------------------------------------------------------------------
(* ExtractEntrypoint on any argument list (ArgsSpec).                      *)

MaxArgs == 3

\* the words an argument list is made of
Words == {"secret-init", "env", "nonexistentBinary", "secrets"}

\* exec.LookPath: the executables the directories of PATH hold, with the
\* path each name resolves to; <<>> stands for its error
LookPath(file) ==
    CASE file = "env" -> <<"/usr/bin/env">>
      [] file = "secret-init" -> <<"/usr/local/bin/secret-init">>
      [] OTHER -> <<>>

\* a slip: the arguments of the binary start at the binary's own name
ExtractEntrypoint_KeepName(args) ==
    IF Len(args) <= 1
    THEN [binaryPath |-> <<>>, binaryArgs |-> <<>>, err |-> "no args provided"]
    ELSE IF LookPath(args[2]) = <<>>
    THEN [binaryPath |-> <<>>, binaryArgs |-> <<>>, err |-> "binary not found"]
    ELSE [binaryPath |-> LookPath(args[2]),
          binaryArgs |-> SubSeq(args, 2, Len(args)), err |-> "nil"]

\* ExtractEntrypoint(args): args[1] of the Go slice is args[2] here
ExtractEntrypoint(args) ==
    IF Len(args) <= 1
    THEN [binaryPath |-> <<>>, binaryArgs |-> <<>>, err |-> "no args provided"]
    ELSE IF LookPath(args[2]) = <<>>
    THEN [binaryPath |-> <<>>, binaryArgs |-> <<>>, err |-> "binary not found"]
    ELSE [binaryPath |-> LookPath(args[2]),
          binaryArgs |-> SubSeq(args, 3, Len(args)), err |-> "nil"]

ArgsInit ==
    /\ DispatchIdle
    /\ SupIdle
    /\ osEnviron = <<>>
    /\ loaded = <<>>
    /\ secretsEnv = <<>>
    /\ cmdEnv = <<>>
    /\ childEnv = <<>>
    /\ envPc = "entrypoint"
    /\ data = <<>>
    /\ secretReferences = <<>>
    /\ sanitizeEnvmap = <<>>
    /\ config = <<>>
    /\ provided = <<>>
    /\ results = <<>>
    /\ revoke = <<>>
    /\ osArgs \in SeqsUpTo(Words, MaxArgs)
    /\ entrypoint = <<>>

\* binaryPath, binaryArgs, err := ExtractEntrypoint(os.Args)
Extract ==
    /\ envPc = "entrypoint"
    /\ entrypoint' = ExtractEntrypoint(osArgs)
    /\ envPc' = IF entrypoint'.err = "nil" THEN "extracted" ELSE "exit1"
    /\ UNCHANGED <<osEnviron, loaded, secretsEnv, cmdEnv, childEnv, data,
                   secretReferences, sanitizeEnvmap, config, provided, results,
                   revoke, osArgs>>
    /\ UNCHANGED <<dvars, svars>>

ArgsNext == Extract

ArgsSpec == ArgsInit /\ [][ArgsNext]_vars

----------------------------------------------------------------------------
(* The older main, which spawns the child in daemon mode and replaces its  *)
(* own image otherwise                                                     *)

\* CreateSecretsEnvForVaultProvider: key=value for every secret, the
\* secret's Path being the variable's name
CreateSecretsEnvForVaultProvider(secrets) ==
    [i \in DOMAIN secrets |-> Sprintf(secrets[i].Key, secrets[i].Value)]

\* daemon mode: cmd.Env = append(os.Environ(), secretsEnv...); cmd.Start()
DaemonEnv(environ, senv) == ChildEnviron(CmdEnv(environ, senv))

\* one-shot mode: syscall.Exec(binary, entrypointCmd, secretsEnv); the new
\* image gets the list as it is
OneShotEnv(environ, senv) == senv

ModeInit ==
    /\ DispatchIdle
    /\ SupervisorIdle
    /\ PipeIdle
    /\ daemon \in BOOLEAN
    /\ \E f \in [Range(InheritedNames) -> InheritedValues] :
           osEnviron = Inherited(f)
    /\ loaded \in SeqsUpTo(Secrets, MaxSecrets)
    /\ secretsEnv = <<>>
    /\ cmdEnv = <<>>
    /\ childEnv = <<>>
    /\ envPc = "secretsenv"

\* secretsEnv = CreateSecretsEnvForVaultProvider(secrets); if daemonMode
CreateSecretsEnv ==
    /\ envPc = "secretsenv"
    /\ secretsEnv' = CreateSecretsEnvForVaultProvider(loaded)
    /\ envPc' = IF daemon THEN "command" ELSE "exec"
    /\ UNCHANGED <<osEnviron, loaded, cmdEnv, childEnv>>
    /\ UNCHANGED <<data, secretReferences, sanitizeEnvmap, config, provided,
                   results, revoke, osArgs, entrypoint>>
    /\ UNCHANGED <<dvars, svars>>

\* cmd := exec.Command(binary, entrypointCmd[1:]...); cmd.Env = ...
DaemonCommand ==
    /\ envPc = "command"
    /\ cmdEnv' = CmdEnv(osEnviron, secretsEnv)
    /\ envPc' = "start"
    /\ UNCHANGED <<osEnviron, loaded, secretsEnv, childEnv>>
    /\ UNCHANGED <<data, secretReferences, sanitizeEnvmap, config, provided,
                   results, revoke, osArgs, entrypoint>>
    /\ UNCHANGED <<dvars, svars>>

\* err = cmd.Start()
DaemonStart ==
    /\ envPc = "start"
    /\ \E ok \in BOOLEAN :
         IF ok
         THEN /\ childEnv' = DaemonEnv(osEnviron, secretsEnv)
              /\ envPc' = "spawned"
         ELSE /\ envPc' = "failed"
              /\ UNCHANGED childEnv
    /\ UNCHANGED <<osEnviron, loaded, secretsEnv, cmdEnv>>
    /\ UNCHANGED <<data, secretReferences, sanitizeEnvmap, config, provided,
                   results, revoke, osArgs, entrypoint>>
    /\ UNCHANGED <<dvars, svars>>

\* err = syscall.Exec(binary, entrypointCmd, secretsEnv)
SyscallExec ==
    /\ envPc = "exec"
    /\ \E ok \in BOOLEAN :
         IF ok
         THEN /\ childEnv' = OneShotEnv(osEnviron, secretsEnv)
              /\ envPc' = "execed"
         ELSE /\ envPc' = "failed"
              /\ UNCHANGED childEnv
    /\ UNCHANGED <<osEnviron, loaded, secretsEnv, cmdEnv>>
    /\ UNCHANGED <<data, secretReferences, sanitizeEnvmap, config, provided,
                   results, revoke, osArgs, entrypoint>>
    /\ UNCHANGED <<dvars, svars>>

ModeNext ==
    \/ CreateSecretsEnv
    \/ DaemonCommand
    \/ DaemonStart
    \/ SyscallExec

ModeSpec == ModeInit /\ [][ModeNext]_vars

----------------------------------------------------------------------------
(* Properties of the dispatcher (Spec)                                     *)

Failed == {p \in DOMAIN given :
             outcome[p] \in {"createFailed", "loadFailed"}}

\* exactly p fails, every other provider of the mapping succeeds
OnlyFails(p) ==
    /\ Failed = {p}
    /\ \A q \in (DOMAIN given) \ {p} : outcome[q] = "loaded"

BothGroups ==
    /\ {"vault", "bao"} \subseteq DOMAIN given
    /\ given["vault"] # <<>>
    /\ given["bao"] # <<>>

\* C1: when the mapping holds a non-empty Vault group and a non-empty Bao
\* group, the Bao worker does not call its factory (nor its load) before
\* Vault's load has completed (or Vault has failed).
C1_VaultBeforeBao ==
    (BothGroups /\ outcome["bao"] # "none")
        => outcome["vault"] \in {"loaded", "loadFailed", "createFailed"}

\* C2: when exactly one provider fails and all the others succeed, the call
\* returns no secrets and an error that is exactly the failing provider's;
\* secrets are never returned together with an error.
C2_AllOrNothing ==
    /\ \A p \in Ids :
         (ret.done /\ OnlyFails(p))
             => /\ ret.secrets = <<>>
                /\ ret.err = <<[provider |-> p, stage |-> outcome[p]]>>
    /\ (ret.done /\ ret.err # <<>>) => ret.secrets = <<>>

\* one provider failed, its peers had already put their secrets in the sink,
\* and the call has returned
C2_Witness ==
    /\ ret.done
    /\ \E p \in Ids : OnlyFails(p)
    /\ providerSecrets # <<>>

\* C3: when the call returns, every registered provider of the mapping has
\* had its factory called and, if the factory succeeded, its load called,
\* whatever happened to its peers.
C3_NoPeerSkipped ==
    ret.done =>
        \A p \in (DOMAIN given) \cap ProviderTypes :
            outcome[p] \in {"createFailed", "loaded", "loadFailed"}

\* C4: when LoadProviderSecrets returns, with secrets or with an error,
\* cancelled or not, every worker it started has finished and none holds the
\* mutex or waits on the error channel.
C4_WorkersJoined ==
    ret.done =>
        /\ \A p \in launched : pc[p] = "done"
        /\ \A p \in Ids \ launched : pc[p] = "new"
        /\ wg = 0
        /\ mu = ""

\* the call has returned an error after the context was cancelled while
\* workers were running
C4_Witness ==
    /\ ret.done
    /\ cancelled
    /\ ret.err # <<>>
    /\ Cardinality(launched) >= 2

----------------------------------------------------------------------------
(* Properties of the supervisor (SupSpec, SupFairSpec)                     *)

SupEnded == supPc \in {"exited", "panicked"}

\* C5: in daemon mode no signal delivered to the supervisor while the child
\* was running is discarded before it reaches the forwarder.
C5_NoSignalLost ==
    daemon => \A i \in DOMAIN dropped : ~dropped[i].childRunning

\* the renewer's signal s is on its way to the child: in main's channel, in
\* the forwarder's hand, or already sent to the child
RenewerSignalForwarded(s) ==
    LET e == [sig |-> s, from |-> "renewer"] IN
    \/ \E i \in DOMAIN sigs : sigs[i] = e
    \/ fwdSig = e
    \/ \E i \in DOMAIN childSignals : childSignals[i] = e

\* C6: once the renewer has emitted SIGTERM after the watcher's done event,
\* that SIGTERM is on the forwarder's path to the running child; once the
\* renewer has returned, its SIGKILL is too, emitted 10 seconds after the
\* SIGTERM.
C6_TermThenKillReachChild ==
    /\ (rnPc \in {"grace", "sendkill", "returned"} /\ child.kind = "running")
           => RenewerSignalForwarded("SIGTERM")
    /\ (rnPc = "returned" /\ child.kind = "running")
           => /\ RenewerSignalForwarded("SIGKILL")
              /\ killAt = termAt + GraceSeconds

\* C7: in daemon mode, after the watcher's terminal done event the
\* supervisor process eventually ends.
C7_SupervisorExits == (doneAt >= 0) ~> SupEnded

\* C8: in daemon mode, when the child has terminated by itself with status C
\* and its status was read, the supervisor process ends with status C.
C8_ExitCodeFidelity ==
    (daemon /\ SupEnded /\ child.kind = "exited" /\ waitErr # "other")
        => exitCode = child.code

\* C9: in daemon mode, when the child was killed by signal S and its status
\* was read, the supervisor ends with 128 + S; it ends with -1 only when the
\* status could not be read.
C9_SignalExitCode ==
    /\ (daemon /\ SupEnded /\ child.kind = "signaled" /\ waitErr # "other")
           => exitCode = 128 + SigNum(child.sig)
    /\ (daemon /\ supPc = "exited" /\ exitCode = -1) => waitErr = "other"

----------------------------------------------------------------------------
(* Properties of the child's environment (EnvSpec)                         *)

\* the entries of env whose name is k
EntriesOf(env, k) == {j \in DOMAIN env : EnvKey(env[j]) = k}

----------------------------------------------------------------------------
(* Properties of the start-up pipeline (PipeSpec).                         *)

\* two different providers returned a secret under the same key
SharedKey ==
    \E p, q \in PipeProviders :
        /\ p # q
        /\ \E i \in DOMAIN results[p], j \in DOMAIN results[q] :
               results[p][i].Key = results[q][j].Key

\* C11: when two different providers return secrets with the same
\* destination key, building the child's environment fails and the child is
\* not spawned: the later value never replaces the earlier one.
C11_DuplicateKeyRejected ==
    SharedKey => envPc \notin {"command", "start", "spawned"}

\* a value some provider's predicate accepts
IsReference(v) == \E t \in ProviderTypes : Valid(t, v)

\* the names the user listed in VAULT_PASSTHROUGH or BAO_PASSTHROUGH
PassthroughNames ==
    UNION {Range(Getenv(osEnviron, PassthroughEnv(p))) : p \in Injected}

\* C12: no entry of the child's environment has a raw reference string as
\* its value, unless the user listed that variable in a provider's
\* passthrough.
C12_NoRawReference ==
    envPc = "spawned" =>
        \A i \in DOMAIN childEnv :
            IsReference(EnvValue(childEnv[i]))
                => \E n \in PassthroughNames : EnvKey(childEnv[i]) = <<n>>

\* provider p lets the key k through: the login sentinel is active and k is
\* login-class, or k is named in p's passthrough
Allowed(p, k) ==
    \/ Getenv(osEnviron, TokenEnv(p)) = LoginValue(p) /\ SanitizeEnvmap(p)[k]
    \/ k \in Range(Getenv(osEnviron, PassthroughEnv(p)))

\* C13: after resolution the child's environment contains a key of the
\* Vault or Bao sanitize map only if the login sentinel is active and the key
\* is login-class, or the key is named in the provider's passthrough.
C13_SanitizedKeysAbsent ==
    envPc = "spawned" =>
        \A i \in DOMAIN childEnv, p \in Injected :
            \A k \in DOMAIN SanitizeEnvmap(p) :
                EnvKey(childEnv[i]) = <<k>> => Allowed(p, k)

----------------------------------------------------------------------------
(* More properties of the supervisor (SupSpec).                            *)

\* C14: with daemon mode off the supervisor replaces its own process image
\* with the child: once the child runs, no supervisor process remains
\* beside it and no supervisor code runs.
C14_OneShotExec ==
    ~daemon => ~(SupAlive /\ child.kind = "running")

----------------------------------------------------------------------------
(* More properties of the start-up pipeline (PipeSpec).                    *)

\* main has gone past the dispatch towards the spawn
PastDispatch == envPc \in {"convert", "command", "start", "spawned", "failed"}

\* C15: when loading the configuration, resolving the entrypoint or any
\* provider's secret resolution fails, the child is never spawned and the
\* supervisor exits with code 1: a failed start-up step leads nowhere but to
\* os.Exit(1), and a failed provider leaves main in the dispatch until it
\* exits with code 1.
C15_FailureIsFatal ==
    [][/\ (envPc = "prepare" /\ envPc' # "references")
              => (envPc' = "exit1" /\ childEnv' = <<>>)
       /\ PipeFailed' # {} => (~PastDispatch' /\ childEnv' = <<>>)
       /\ (PipeFailed # {} /\ envPc' # envPc) => envPc' = "exit1"]_vars

\* one provider has failed, another has loaded its secrets, and main has
\* exited with code 1
C15_Witness ==
    /\ envPc = "exit1"
    /\ PipeFailed # {}
    /\ \E p \in PipeProviders : provided[p] = "loaded" /\ results[p] # <<>>
    /\ childEnv = <<>>

----------------------------------------------------------------------------
(* More properties of the dispatcher (Spec).                               *)

\* C16: LoadProviderSecrets called with a mapping that contains a provider
\* id absent from the registry returns a non-nil error that names that
\* provider as not supported; the unknown id is never skipped silently:
\* once its worker has run and the call has returned, the error returned
\* holds an error of that provider.
C16_UnknownProviderRejected ==
    \A p \in (DOMAIN given) \ ProviderTypes :
        (ret.done /\ pc[p] = "done")
            => \E i \in DOMAIN ret.err : ret.err[i].provider = p

\* GetSecretReferences has run
Classified == data # <<>> /\ envPc \notin {"prepare", "references"}

\* the positions of the entry kv in the group of provider t
PlacesOf(t, kv) ==
    IF t \in DOMAIN secretReferences
    THEN {j \in DOMAIN secretReferences[t] : secretReferences[t][j] = kv}
    ELSE {}

\* C17: for every entry of the inherited environment whose value matches at
\* least one provider predicate, the string "name=value" appears exactly
\* once in the group of every provider whose predicate matches it.
C17_ClassificationTotal ==
    Classified =>
        \A i \in DOMAIN osEnviron, t \in ProviderTypes :
            Valid(t, EnvValue(osEnviron[i]))
                => Cardinality(PlacesOf(t, osEnviron[i])) = 1

\* an entry that two predicates accept sits in both groups, next to another
\* entry of one of them
C17_Witness ==
    /\ Classified
    /\ PlacesOf("file", Sprintf(<<"A">>, FileVaultRef)) # {}
    /\ PlacesOf("vault", Sprintf(<<"A">>, FileVaultRef)) # {}
    /\ PlacesOf("vault", Sprintf(<<"B">>, VaultRef)) # {}

\* *_FROM_PATH of provider p is set and no inherited entry matches p's
\* predicate
FromPathOnly(p) ==
    /\ <<FromPathEnv(p)>> \in DOMAIN data
    /\ \A k \in DOMAIN data : ~Valid(p, data[k])

\* C18: when VAULT_FROM_PATH (respectively BAO_FROM_PATH) is set and no
\* entry matches the Vault (respectively Bao) predicate, the reference
\* mapping still holds that provider with an empty list, and the dispatcher
\* creates the provider and calls its load before main goes on.
C18_FromPathInstantiates ==
    \A p \in Injected :
        (Classified /\ FromPathOnly(p))
            => /\ p \in DOMAIN secretReferences
               /\ secretReferences[p] = <<>>
               /\ PastDispatch => provided[p] = "loaded"

----------------------------------------------------------------------------
(* Properties of a load call (LoadSpec).                                   *)

\* the environment names of the entries of the input list of loader l
InputNames(l) ==
    {EnvKey(secretReferences[l][j]) : j \in DOMAIN secretReferences[l]}

\* C19: every Secret a loader returns, other than those Vault or Bao produce
\* in from-path mode, has a key equal to the environment name of one of the
\* "name=reference" entries of that load call's input list.
C19_KeysFromInput ==
    \A l \in DOMAIN results :
        \A i \in DOMAIN results[l] :
            \/ l \in Injected /\ results[l][i].Value = PathSecret(l)
            \/ results[l][i].Key \in InputNames(l)

----------------------------------------------------------------------------
(* More properties of the start-up pipeline (PipeSpec).                    *)

\* p's token variable holds an ordinary token, and neither a token file nor
\* a role, an auth path or an auth method is configured
DirectTokenOnly(p) ==
    /\ Getenv(osEnviron, TokenEnv(p)) \notin {<<>>, LoginValue(p)}
    /\ \A k \in {TokenFileEnv(p), RoleEnv(p), PathEnv(p), AuthMethodEnv(p)} :
           ~LookupEnv(osEnviron, k)

\* C20: with VAULT_TOKEN (or BAO_TOKEN) set to an ordinary token and neither
\* a token file nor role, auth path and auth method configured, the
\* provider's configuration succeeds and the client authenticates with that
\* token.
C20_DirectToken ==
    \A p \in Injected :
        (provided[p] # "none" /\ DirectTokenOnly(p))
            => /\ config[p] # NoConfig
               /\ ClientAuth(config[p]) = "token"
               /\ config[p].Token = Getenv(osEnviron, TokenEnv(p))

\* the role, the auth path and the auth method of provider p
Trio(p) == {RoleEnv(p), PathEnv(p), AuthMethodEnv(p)}

\* C21: when no token file is configured, the configuration loading of
\* Vault and Bao fails with a configuration error if and only if at least
\* one of the role, the auth path and the auth method is missing from the
\* environment.
C21_TrioRequired ==
    \A p \in Injected :
        (provided[p] # "none" /\ ~LookupEnv(osEnviron, TokenFileEnv(p)))
            => (provided[p] = "configFailed"
                    <=> \E k \in Trio(p) : ~LookupEnv(osEnviron, k))

\* without a token file, Vault's configuration has failed to load for a
\* missing auth method alone
C21_Witness ==
    /\ provided["vault"] = "configFailed"
    /\ ~LookupEnv(osEnviron, "VAULT_TOKEN_FILE")
    /\ LookupEnv(osEnviron, "VAULT_ROLE")
    /\ LookupEnv(osEnviron, "VAULT_PATH")
    /\ ~LookupEnv(osEnviron, "VAULT_AUTH_METHOD")

\* the entry of the child's environment for the name k, <<>> when it has none
ChildValue(k) ==
    IF \E i \in DOMAIN childEnv : EnvKey(childEnv[i]) = <<k>>
    THEN EnvValue(childEnv[CHOOSE i \in DOMAIN childEnv :
                               EnvKey(childEnv[i]) = <<k>>])
    ELSE <<>>

\* provider p has logged in under the login sentinel and the child runs
LoggedIn(p) ==
    /\ envPc = "spawned"
    /\ provided[p] = "loaded"
    /\ config[p].IsLogin

\* C22: when the token variable holds the login sentinel, the child's
\* VAULT_TOKEN / BAO_TOKEN carries the token acquired by the login exchange
\* if the user listed that variable in the passthrough, and the acquired
\* token is not handed to the child otherwise.
C22_LoginTokenPassthrough ==
    \A p \in Injected :
        LoggedIn(p) =>
            (ChildValue(TokenEnv(p)) = AcquiredToken(p)
                 <=> TokenEnv(p) \in Range(Getenv(osEnviron, PassthroughEnv(p))))

\* C23: when *_REVOKE_TOKEN is true and the revoke-self call fails, the
\* provider's load still returns all the loaded secrets with no error, and
\* the child is spawned as in the non-failing case: main exits with code 1
\* only for a provider that failed.
C23_RevokeFailureNotFatal ==
    \A p \in DOMAIN revoke :
        revoke[p] = "denied" =>
            /\ provided[p] = "loaded"
            /\ \E literal \in BOOLEAN, fk \in FromPathKeys :
                   results[p] = InjectorLoadSecrets(p, secretReferences[p],
                                                    config[p], sanitizeEnvmap[p],
                                                    literal, fk)
            /\ envPc = "exit1" => PipeFailed # {}

\* Vault's revoke-self call was denied, its secret is in the child's
\* environment
C23_Witness ==
    /\ "vault" \in DOMAIN revoke
    /\ revoke["vault"] = "denied"
    /\ envPc = "spawned"
    /\ ChildValue("A") = Resolved("vault")

----------------------------------------------------------------------------
(* Properties of ExtractEntrypoint (ArgsSpec).                             *)

\* ExtractEntrypoint has returned
Extracted == envPc \in {"extracted", "exit1"}

\* C24: ExtractEntrypoint fails if and only if the argument list has fewer
\* than two elements or its second element cannot be located on PATH;
\* otherwise it returns the resolved path of the second element together
\* with all the elements after the second, unchanged and in order.
C24_EntrypointContract ==
    Extracted =>
        /\ entrypoint.err # "nil"
               <=> (Len(osArgs) < 2 \/ LookPath(osArgs[2]) = <<>>)
        /\ entrypoint.err = "nil" =>
               /\ entrypoint.binaryPath = LookPath(osArgs[2])
               /\ Len(entrypoint.binaryArgs) = Len(osArgs) - 2
               /\ \A i \in DOMAIN entrypoint.binaryArgs :
                      entrypoint.binaryArgs[i] = osArgs[i + 2]

\* the entrypoint of "secret-init env secrets" is /usr/bin/env with the one
\* argument "secrets"
C24_Witness ==
    /\ Extracted
    /\ osArgs = <<"secret-init", "env", "secrets">>
    /\ entrypoint.binaryPath = <<"/usr/bin/env">>
    /\ entrypoint.binaryArgs = <<"secrets">>

\* s without its trailing newline
TrimNewline(s) ==
    IF s # <<>> /\ s[Len(s)] = "\n" THEN SubSeq(s, 1, Len(s) - 1) ELSE s

\* C26: the token taken from the file named by *_TOKEN_FILE is the file's
\* content with its trailing newline removed.
C26_TokenFileTrimmed ==
    \A p \in Injected :
        config[p].TokenFile =>
            config[p].Token
                = TrimNewline(ReadFile(Getenv(osEnviron, TokenFileEnv(p))))

\* C27: no value is ever sent on the supervisor's signal channel after the
\* supervisor has closed it.  In the model the only send that can meet the
\* closed channel is the one behind signal.Notify, and it ends in a panic.
C27_NoSendAfterClose == sigsClosed => supPc # "panicked"

\* the value of VAULT_ADDR the supervisor inherited, from the snapshot
\* NewEnvStore took at startup
InheritedVaultAddr ==
    IF <<"VAULT_ADDR">> \in DOMAIN data THEN data[<<"VAULT_ADDR">>] ELSE <<>>

\* C28: under every interleaving of the provider workers, the Vault client
\* is constructed with the Vault address inherited at startup, and never
\* with the address that Bao's configuration loader writes into VAULT_ADDR.
C28_VaultClientAddress ==
    provided["vault"] \in {"created", "loaded", "loadFailed"}
        => config["vault"].Addr = InheritedVaultAddr

\* the child has terminated, by itself or by a signal
ChildGone == child.kind \in {"exited", "signaled"}

\* C29: once the child has exited (normally or by a signal), the forwarder
\* never again attempts to signal the child process (no cmd.Process.Signal
\* step), and a signal arriving at the supervisor causes no crash.
C29_NoSignalAfterChildExit ==
    [][ChildGone =>
           /\ ~(fwdPc = "signal" /\ fwdPc' = "recv")
           /\ ~(supPc # "panicked" /\ supPc' = "panicked")]_vars

\* the providers whose failure the returned error carries
Reported == {ret.err[i].provider : i \in DOMAIN ret.err}

\* C30: if several providers fail in one dispatch, the error returned by
\* LoadProviderSecrets contains the failure of every failing provider, each
\* with the stage it failed at, not only the first one encountered.
C30_ErrorsJoined ==
    (ret.done /\ Cardinality(Failed) >= 2)
        => \A p \in Failed :
               \E i \in DOMAIN ret.err :
                   ret.err[i] = [provider |-> p, stage |-> outcome[p]]

\* two providers have failed, one in its factory and one in its load, and
\* the call has returned an error that names both
C30_Witness ==
    /\ ret.done
    /\ \E p, q \in Failed :
         /\ outcome[p] = "createFailed"
         /\ outcome[q] = "loadFailed"
    /\ Reported = Failed
    /\ Len(ret.err) = 2

\* the providers of the mapping whose loader returned its secrets
Loaded == {p \in DOMAIN given : outcome[p] = "loaded"}

\* how often x occurs in the list s
Count(s, x) == Cardinality({i \in DOMAIN s : s[i] = x})

\* how often x occurs in the results of all the loaders that succeeded
Returned(x) ==
    Cardinality({pi \in Loaded \X (1..MaxRefs) :
                    /\ pi[2] <= Len(given[pi[1]])
                    /\ LoadSecrets(pi[1], given[pi[1]])[pi[2]] = x})

\* C31: on success, the list returned by LoadProviderSecrets contains every
\* secret returned by every loader exactly once: it is a permutation of the
\* concatenation of the loaders' results.
C31_SinkComplete ==
    (ret.done /\ ret.err = <<>>)
        => /\ \A p \in Loaded :
                \A i \in DOMAIN given[p] :
                    LET x == LoadSecrets(p, given[p])[i]
                    IN Count(ret.secrets, x) = Returned(x)
           /\ \A i \in DOMAIN ret.secrets : Returned(ret.secrets[i]) >= 1

\* two workers have each appended a non-empty result to the sink and the
\* call has returned without error
C31_Witness ==
    /\ ret.done
    /\ ret.err = <<>>
    /\ \E p, q \in Loaded :
         /\ p # q
         /\ p \in launched /\ q \in launched
         /\ given[p] # <<>> /\ given[q] # <<>>
    /\ Len(ret.secrets) >= 2

\* the errors provider p has published and main has not read yet
Published(p) == {i \in DOMAIN errCh : errCh[i].provider = p}

\* the workers that are about to publish their error
Publishing == {p \in Ids : pc[p] = "senderr"}

\* C32: at most one error per provider is ever published to the error
\* channel, so the number of published errors never exceeds the channel's
\* capacity and no worker ever blocks on publishing its error: the errors
\* in the channel and the workers about to publish are together no more
\* than the registered providers of the mapping, hence than the capacity.
C32_ErrorsFitChannel ==
    /\ \A p \in Ids : Cardinality(Published(p)) <= 1
    /\ \A p \in Ids : (p \in Publishing) => Published(p) = {}
    /\ Len(errCh) + Cardinality(Publishing)
           <= Cardinality((DOMAIN given) \cap ProviderTypes)
    /\ Cardinality((DOMAIN given) \cap ProviderTypes) <= ErrChCap
    /\ \A p \in Publishing : Len(errCh) < ErrChCap

\* one worker has published its error and another is about to publish
C32_Witness ==
    /\ Len(errCh) = 1
    /\ \E p \in Publishing : errCh[1].provider # p

\* the places of the returned list that hold a secret of provider p
BlockOf(p) == {i \in DOMAIN ret.secrets : ret.secrets[i].Value[1] = p}

\* C33: in the list returned by LoadProviderSecrets, the secrets of each
\* provider appear as one contiguous block in the same order in which that
\* provider's loader returned them, under every interleaving of the workers.
C33_BlocksInLoaderOrder ==
    (ret.done /\ ret.err = <<>>)
        => \A p \in Loaded :
               LET secrets == LoadSecrets(p, given[p])
               IN IF secrets = <<>>
                  THEN BlockOf(p) = {}
                  ELSE \E k \in DOMAIN ret.secrets :
                           /\ BlockOf(p) = k..(k + Len(secrets) - 1)
                           /\ SubSeq(ret.secrets, k, k + Len(secrets) - 1)
                                  = secrets

\* two workers have each appended a block of two secrets or more and the call
\* has returned without error
C33_Witness ==
    /\ ret.done
    /\ ret.err = <<>>
    /\ \E p, q \in Loaded \cap launched :
         /\ p # q
         /\ Len(given[p]) >= 2 /\ Len(given[q]) >= 2
         /\ Cardinality(BlockOf(p)) >= 2 /\ Cardinality(BlockOf(q)) >= 2

\* C34: after the EnvStore snapshot has been taken, no component sets or
\* unsets any variable of the supervisor's own process environment.
C34_EnvironmentReadOnly ==
    [][(envPc # "prepare") => osEnviron' = osEnviron]_vars

\* C35: for a non-renewable secret, after the watcher's done event the
\* renewer waits for the secret's original lease duration before it emits
\* SIGTERM: the SIGTERM is sent no earlier than the done event plus the
\* lease, and while the sleep lasts nothing has been sent.
C35_SleepsLeaseBeforeTerm ==
    /\ (~renewable /\ termAt >= 0) => (doneAt >= 0 /\ termAt >= doneAt + lease)
    /\ (~renewable /\ doneAt >= 0 /\ now < doneAt + lease) => termAt < 0

\* the renewer of a non-renewable secret with a lease of a second or more
\* has sent its SIGTERM
C35_Witness ==
    /\ ~renewable
    /\ lease >= 1
    /\ doneAt >= 0
    /\ termAt = doneAt + lease

\* C36: outside daemon mode, a termination signal delivered to the
\* supervisor while the child is running is never captured and discarded:
\* it either reaches the child or terminates the supervisor.  Outside daemon
\* mode no goroutine reads the channel, so what the delivery step does not
\* do is never done later.
C36_SignalNotSwallowed ==
    [][(~daemon /\ child.kind = "running" /\ nSignals' = nSignals + 1)
           => \/ childSignals' # childSignals
              \/ child'.kind # "running"
              \/ supPc' \in {"exited", "panicked"}]_vars

\* the child has been started, in either mode
Handed == envPc \in {"spawned", "execed"}

\* C37: for the same inherited environment and the same resolved secrets,
\* the environment handed to the child in daemon mode equals the environment
\* handed to it in one-shot mode: what a started child holds is what the
\* other mode would have handed to it (as a set of entries).
C37_SameEnvironmentInBothModes ==
    Handed =>
        Range(childEnv)
            = Range(IF daemon THEN OneShotEnv(osEnviron, secretsEnv)
                    ELSE DaemonEnv(osEnviron, secretsEnv))

\* the signals the renewer has emitted, wherever they are by now
FromRenewer ==
    {e \in Range(provSigs) \cup Range(sigs) \cup Range(childSignals)
           \cup {fwdSig} : e.from = "renewer"}

\* C38: when daemon mode is off, no renewer is created, no lifetime watcher
\* is started, and no SIGTERM or SIGKILL is ever emitted on account of a
\* lease.
C38_NoRenewerOutsideDaemon ==
    ~daemon =>
        /\ rnPc = "none"
        /\ FromRenewer = {}
        /\ doneAt < 0 /\ termAt < 0 /\ killAt < 0

\* a run outside daemon mode has come to its end with the child's status
C38_Witness ==
    /\ ~daemon
    /\ supPc = "exited"
    /\ child.kind = "exited"
    /\ exitCode = child.code

\* C39: on success the AWS loader returns exactly one Secret for each input
\* reference (a reference is served either by Secrets Manager or by SSM,
\* never by both), so the result has the same length and order as the input
\* list.
C39_AwsOnePerReference ==
    ("aws" \in DOMAIN results /\ provided["aws"] = "loaded")
        => /\ Len(results["aws"]) = Len(secretReferences["aws"])
           /\ \A i \in DOMAIN results["aws"] :
                  results["aws"][i].Key = EnvKey(secretReferences["aws"][i])

====
